----------------------------- MODULE LoginFlow -----------------------------
(***************************************************************************)
(* The programs around the users table: clients, from main over the login, *)
(* password and registration windows to the chat window and back, and the  *)
(* server, which reads the same credentials once and checks them again.    *)
(*                                                                         *)
(* A client is one Qt main thread.  A dialog or a confirmation box is a    *)
(* nested event loop that keeps the user from the other windows, but not a *)
(* timer from firing.  LoginWindow and ChatWindow are the windows whose    *)
(* end ends the program: Qt quits when the last one that is visible is     *)
(* closed, and not when one is hidden.                                     *)
(***************************************************************************)
EXTENDS UserDatabase

CONSTANTS
  Clients, Server,
  NoText  \* what operator>> makes of a string that is not all there: an empty one

ASSUME ServerIsNoClient == Server \notin Clients

(* The register dialog takes no empty password. *)
ASSUME NoTextAssumption == NoText \notin Passwords \cup {NoPassword}

Programs == Clients \cup {Server}

VARIABLES
  program,    \* "off", "opened", "empty" (no user was counted), "running",
              \* or "lost": ended with nobody having closed a window
  view,       \* which of "login" and "chat" are visible, for each client
  dialog,     \* "none", "password", "register", "adding" (between its queries)
  accepting,  \* the register dialog will accept itself within a second
  name,       \* the name a dialog or the chat window is about
  password,   \* the password that goes with it
  closing,    \* PasswordWindow's timer of 1 ms is running
  box,        \* logout confirmation: "none", or "first" or "second" call of it
  session,    \* "none", "asking", "checking", "accepted", "refused" by the server
  heard,      \* the password the server has read of the client's credentials
  told        \* history variable: <<name, password>> reported as registered

entryVars == <<name, password>>
sessionVars == <<session, heard>>
windowVars == <<view, dialog, accepting, closing, box>>
vars == <<databaseVars, program, windowVars, entryVars, sessionVars, told>>

Init ==
  /\ InitDatabase
  /\ program = [p \in Programs |-> "off"]
  /\ view = [c \in Clients |-> {}]
  /\ dialog = [c \in Clients |-> "none"]
  /\ accepting = [c \in Clients |-> FALSE]
  /\ name = [c \in Clients |-> TestUser]
  /\ password = [c \in Clients |-> TestPassword]
  /\ closing = [c \in Clients |-> FALSE]
  /\ box = [c \in Clients |-> "none"]
  /\ session = [c \in Clients |-> "none"]
  /\ heard = [c \in Clients |-> NoText]
  /\ told = {}

----------------------------------------------------------------------------
(* Starting a program: main and DatabaseManager::initialize.               *)

(* The file is opened and has its table.  If this fails, main returns and  *)
(* the program stays off.                                                  *)
Open(p) ==
  /\ program[p] = "off"
  /\ program' = [program EXCEPT ![p] = "opened"]
  /\ UNCHANGED <<databaseVars, windowVars, entryVars, sessionVars, told>>

(* The server has no window; a client shows its login window. *)
Run(p) ==
  /\ program' = [program EXCEPT ![p] = "running"]
  /\ view' = IF p = Server THEN view ELSE [view EXCEPT ![p] = {"login"}]

(* Faulty variant: the answer is not looked at. *)
CountUsersIgnored(p) ==
  /\ program[p] = "opened"
  /\ \E zero \in BOOLEAN : CountIsZero(zero) /\ Run(p)
  /\ UNCHANGED <<dialog, accepting, closing, box, entryVars, sessionVars, told>>

CountUsers(p) ==
  /\ program[p] = "opened"
  /\ \E zero \in BOOLEAN :
       /\ CountIsZero(zero)
       /\ IF zero THEN program' = [program EXCEPT ![p] = "empty"] /\ UNCHANGED view ELSE Run(p)
  /\ UNCHANGED <<dialog, accepting, closing, box, entryVars, sessionVars, told>>

(* What addUser answers is not looked at. *)
AddTestUser(p) ==
  /\ program[p] = "empty"
  /\ \E added \in BOOLEAN : AddUser(TestUser, TestPassword, added)
  /\ Run(p)
  /\ UNCHANGED <<dialog, accepting, closing, box, entryVars, sessionVars, told>>

----------------------------------------------------------------------------
(* The login window.                                                       *)

AtLogin(c) == "login" \in view[c] /\ dialog[c] = "none" /\ box[c] = "none"

(* onLoginClicked: an unknown name is reported, a known one opens a dialog. *)
LoginClick(c, n) ==
  /\ AtLogin(c)
  /\ \E exists \in BOOLEAN :
       /\ UserExists(n, exists)
       /\ IF exists
          THEN dialog' = [dialog EXCEPT ![c] = "password"] /\ name' = [name EXCEPT ![c] = n]
          ELSE UNCHANGED <<dialog, name>>
  /\ UNCHANGED <<program, view, accepting, closing, box, password, sessionVars, told>>

(* The socket connects, and sends the credentials, if the server is there. *)
ConnectToServer(c) ==
  session' = [session EXCEPT ![c] = IF program[Server] = "running" THEN "asking" ELSE "none"]

(* onSubmitClicked.  With the right password the chat window connects and  *)
(* is shown, the login window is hidden, the timer started and the dialog  *)
(* accepted, all before another event is served.                           *)
PasswordSubmit(c, pw) ==
  /\ dialog[c] = "password"
  /\ \E match \in BOOLEAN :
       /\ CheckUser(name[c], pw, match)
       /\ IF match
          THEN /\ password' = [password EXCEPT ![c] = pw]
               /\ view' = [view EXCEPT ![c] = {"chat"}]
               /\ closing' = [closing EXCEPT ![c] = TRUE]
               /\ dialog' = [dialog EXCEPT ![c] = "none"]
               /\ ConnectToServer(c)
          ELSE UNCHANGED <<password, view, closing, dialog, session>>
  /\ UNCHANGED <<program, accepting, box, name, heard, told>>

OpenRegister(c) ==
  /\ AtLogin(c)
  /\ dialog' = [dialog EXCEPT ![c] = "register"]
  /\ UNCHANGED <<databaseVars, program, view, accepting, closing, box, entryVars, sessionVars, told>>

(* onRegisterClicked up to its second query.  The button can be clicked    *)
(* again in the second that the dialog stays open after a success.         *)
RegisterClick(c, n, pw) ==
  /\ dialog[c] = "register"
  /\ \E exists \in BOOLEAN :
       /\ UserExists(n, exists)
       /\ IF exists THEN UNCHANGED <<dialog, entryVars>>
          ELSE /\ dialog' = [dialog EXCEPT ![c] = "adding"]
               /\ name' = [name EXCEPT ![c] = n]
               /\ password' = [password EXCEPT ![c] = pw]
  /\ UNCHANGED <<program, view, accepting, closing, box, sessionVars, told>>

(* Faulty variant: success is reported whatever the query answers. *)
RegisterUnchecked(c) ==
  /\ dialog[c] = "adding"
  /\ dialog' = [dialog EXCEPT ![c] = "register"]
  /\ \E added \in BOOLEAN : AddUser(name[c], password[c], added)
  /\ accepting' = [accepting EXCEPT ![c] = TRUE]
  /\ told' = told \cup {<<name[c], password[c]>>}
  /\ UNCHANGED <<program, view, closing, box, entryVars, sessionVars>>

(* The second query and its report. *)
Register(c) ==
  /\ dialog[c] = "adding"
  /\ dialog' = [dialog EXCEPT ![c] = "register"]
  /\ \E added \in BOOLEAN :
       /\ AddUser(name[c], password[c], added)
       /\ IF added THEN /\ accepting' = [accepting EXCEPT ![c] = TRUE]
                        /\ told' = told \cup {<<name[c], password[c]>>}
          ELSE UNCHANGED <<accepting, told>>
  /\ UNCHANGED <<program, view, closing, box, entryVars, sessionVars>>

(* Cancelled by the user, or accepted by the timer of a second. *)
CloseDialog(c) ==
  /\ dialog[c] \in {"password", "register"}
  /\ dialog' = [dialog EXCEPT ![c] = "none"]
  /\ accepting' = [accepting EXCEPT ![c] = FALSE]
  /\ UNCHANGED <<databaseVars, program, view, closing, box, entryVars, sessionVars, told>>

----------------------------------------------------------------------------
(* The chat window, as far as it opens and closes.                         *)

OpenBox(c) ==
  /\ "chat" \in view[c]
  /\ box[c] = "none"
  /\ box' = [box EXCEPT ![c] = "first"]
  /\ UNCHANGED <<databaseVars, program, view, dialog, accepting, closing, entryVars, sessionVars, told>>

(* The slot is connected twice: the box opens again when it is closed. *)
BoxCloses(c) == box' = [box EXCEPT ![c] = IF box[c] = "first" THEN "second" ELSE "none"]

(* The session of c is over on both sides. *)
Disconnect(c) ==
  /\ session' = [session EXCEPT ![c] = "none"]
  /\ heard' = [heard EXCEPT ![c] = NoText]

(* Faulty variant: the answer does not wait for a timer that is due. *)
ConfirmLogoutAtOnce(c) ==
  /\ box[c] # "none"
  /\ view' = [view EXCEPT ![c] = {"login"}]
  /\ Disconnect(c)
  /\ BoxCloses(c)
  /\ UNCHANGED <<databaseVars, program, dialog, accepting, closing, entryVars, told>>

(* disconnect, loggedOut, close: the login window comes back and the chat  *)
(* window goes.  The box has been shown by an event loop that serves a     *)
(* timer of 1 ms before it can serve a click on what it has just shown.    *)
ConfirmLogout(c) ==
  /\ box[c] # "none"
  /\ ~closing[c]
  /\ view' = [view EXCEPT ![c] = {"login"}]
  /\ Disconnect(c)
  /\ BoxCloses(c)
  /\ UNCHANGED <<databaseVars, program, dialog, accepting, closing, entryVars, told>>

DeclineLogout(c) ==
  /\ box[c] # "none"
  /\ BoxCloses(c)
  /\ UNCHANGED <<databaseVars, program, view, dialog, accepting, closing, entryVars, sessionVars, told>>

(* One read of at most 1024 bytes is all the server ever takes for the     *)
(* credentials.  If they are longer, or TCP brings them in pieces, the     *)
(* password is not all there and is read as an empty one.  So is a name    *)
(* that is cut, and the password after it: no row has either.              *)
ServerReads(c) ==
  /\ session[c] = "asking"
  /\ program[Server] = "running"
  /\ session' = [session EXCEPT ![c] = "checking"]
  /\ \E text \in {password[c], NoText} : heard' = [heard EXCEPT ![c] = text]
  /\ UNCHANGED <<databaseVars, program, windowVars, entryVars, told>>

(* The handler of that read has the table asked again. *)
ServerChecks(c) ==
  /\ session[c] = "checking"
  /\ \E match \in BOOLEAN :
       /\ CheckUser(name[c], heard[c], match)
       /\ session' = [session EXCEPT ![c] = IF match THEN "accepted" ELSE "refused"]
  /\ UNCHANGED <<program, windowVars, entryVars, heard, told>>

----------------------------------------------------------------------------
(* Ends.                                                                   *)

(* The program of client c ends; all that is left is what the table has. *)
End(c, how) ==
  /\ program' = [program EXCEPT ![c] = how]
  /\ view' = [view EXCEPT ![c] = {}]
  /\ dialog' = [dialog EXCEPT ![c] = "none"]
  /\ accepting' = [accepting EXCEPT ![c] = FALSE]
  /\ closing' = [closing EXCEPT ![c] = FALSE]
  /\ box' = [box EXCEPT ![c] = "none"]
  /\ Disconnect(c)

(* The user closes the only window that is visible, and Qt quits. *)
CloseLast(c, window) == view[c] = {window} /\ End(c, "off")

(* The timer of 1 ms closes the login window, which is hidden already. *)
CloseTimer(c) ==
  /\ closing[c]
  /\ IF view[c] = {"login"} THEN End(c, "lost")
     ELSE /\ view' = [view EXCEPT ![c] = @ \ {"login"}]
          /\ closing' = [closing EXCEPT ![c] = FALSE]
          /\ UNCHANGED <<program, dialog, accepting, box, sessionVars>>
  /\ UNCHANGED <<databaseVars, entryVars, told>>

CloseLogin(c) ==
  /\ AtLogin(c)
  /\ CloseLast(c, "login")
  /\ UNCHANGED <<databaseVars, entryVars, told>>

CloseChat(c) ==
  /\ box[c] = "none"
  /\ CloseLast(c, "chat")
  /\ UNCHANGED <<databaseVars, entryVars, told>>

(* A client dies at any point, also between its two queries. *)
CrashClient(c) ==
  /\ program[c] \in {"opened", "empty", "running"}
  /\ End(c, "off")
  /\ UNCHANGED <<databaseVars, entryVars, told>>

(* The server ends, and with it every session. *)
CrashServer ==
  /\ program[Server] \in {"opened", "empty", "running"}
  /\ program' = [program EXCEPT ![Server] = "off"]
  /\ session' = [c \in Clients |-> "none"]
  /\ heard' = [c \in Clients |-> NoText]
  /\ UNCHANGED <<databaseVars, windowVars, entryVars, told>>

----------------------------------------------------------------------------
StartStep(p) == Open(p) \/ CountUsers(p) \/ AddTestUser(p)

LoginStep(c) ==
  \/ \E n \in Names : LoginClick(c, n)
  \/ \E pw \in Passwords : PasswordSubmit(c, pw)
  \/ OpenRegister(c)
  \/ \E n \in Names, pw \in Passwords : RegisterClick(c, n, pw)
  \/ Register(c)
  \/ CloseDialog(c)

ChatStep(c) ==
  OpenBox(c) \/ ConfirmLogout(c) \/ DeclineLogout(c) \/ ServerReads(c) \/ ServerChecks(c)

EndStep(c) == CloseTimer(c) \/ CloseLogin(c) \/ CloseChat(c) \/ CrashClient(c)

Next ==
  \/ \E p \in Programs : StartStep(p)
  \/ \E c \in Clients : LoginStep(c) \/ ChatStep(c) \/ EndStep(c)
  \/ CrashServer

Spec == Init /\ [][Next]_vars

----------------------------------------------------------------------------
(***************************************************************************)
(* Properties                                                              *)
(***************************************************************************)

(* Every variable has its type. *)
TypeOK ==
  /\ users \in [Names -> Passwords \cup {NoPassword}]
  /\ errors \in 0..MaxErrors
  /\ program \in [Programs -> {"off", "opened", "empty", "running", "lost"}]
  /\ view \in [Clients -> SUBSET {"login", "chat"}]
  /\ dialog \in [Clients -> {"none", "password", "register", "adding"}]
  /\ accepting \in [Clients -> BOOLEAN] /\ closing \in [Clients -> BOOLEAN]
  /\ name \in [Clients -> Names] /\ password \in [Clients -> Passwords]
  /\ box \in [Clients -> {"none", "first", "second"}]
  /\ session \in [Clients -> {"none", "asking", "checking", "accepted", "refused"}]
  /\ heard \in [Clients -> Passwords \cup {NoText}]
  /\ told \subseteq Names \X Passwords

(* Although looking for a name and taking it are two queries, with other   *)
(* programs in between, whoever was told "Registration successful!" has    *)
(* the account, with that password, for ever.                              *)
RegistrationsStand == \A n \in Names, pw \in Passwords : <<n, pw>> \in told => users[n] = pw

(* What was checked before a window opened is true as long as it is open,  *)
(* whatever other programs do to the table: the password dialog is for a   *)
(* user that exists, and the chat window connects with credentials in the  *)
(* table.  So the server refuses a client only if a query fails or if its  *)
(* one read of the credentials has not got them all, and never accepts one *)
(* of whose password it has read nothing.                                  *)
LoginIsSound ==
  \A c \in Clients :
    /\ dialog[c] = "password" => Exists(name[c])
    /\ "chat" \in view[c] => users[name[c]] = password[c]
    /\ session[c] = "refused" => errors > 0 \/ heard[c] = NoText
    /\ session[c] = "accepted" => heard[c] = password[c]

(* A client runs until its user closes a window: over hiding, showing and  *)
(* the delayed closing of the login window one of the two windows, and     *)
(* never both, is there for him.                                           *)
WindowFollows ==
  \A c \in Clients :
    /\ program[c] # "lost"
    /\ program[c] = "running" <=> view[c] \in {{"login"}, {"chat"}}

(* However many programs find the table empty at once, its first user is   *)
(* the test user: it exists before anybody can log in or register, unless  *)
(* a query has failed.                                                     *)
TestUserFirst ==
  errors = 0 /\ ((\E n \in Names : Exists(n)) \/ (\E p \in Programs : program[p] = "running"))
    => users[TestUser] = TestPassword

(* Which window, dialog, box and timer can be there together. *)
WindowsNest ==
  \A c \in Clients :
    /\ dialog[c] # "none" => view[c] = {"login"} /\ box[c] = "none"
    /\ box[c] = "first" => view[c] = {"chat"}
    /\ box[c] # "none" => program[c] = "running"
    /\ closing[c] \/ session[c] # "none" => view[c] = {"chat"}
    /\ view[c] \subseteq {"login"} \/ view[c] = {"chat"}
    /\ view[c] = {} <=> program[c] # "running"

(* What the server has heard of a client is from its one read. *)
HeardOnce ==
  \A c \in Clients :
    heard[c] = NoText \/ (heard[c] = password[c] /\ session[c] \notin {"none", "asking"})

(* The inductive invariant. *)
LoginInv ==
  /\ TypeOK
  /\ WindowsNest
  /\ HeardOnce
  /\ RegistrationsStand
  /\ LoginIsSound
  /\ WindowFollows
  /\ TestUserFirst

Table == INSTANCE UserTable

(* All the programs together use the table as UserTable says. *)
ImplementsTable == Table!Spec
=============================================================================
