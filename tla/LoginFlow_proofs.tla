-------------------------- MODULE LoginFlow_proofs --------------------------
(***************************************************************************)
(* The properties of LoginFlow for any number of clients, names, passwords *)
(* and failing queries, and the refinement of UserTable.  What the queries *)
(* do is stated first; one lemma per part of the invariant follows.        *)
(***************************************************************************)
EXTENDS LoginFlow, TLAPS

(* What every step leaves of the table and of the count of errors. *)
Keeps ==
  /\ users' \in [Names -> Passwords \cup {NoPassword}]
  /\ errors' \in 0..MaxErrors
  /\ errors <= errors'
  /\ \A n \in Names : Exists(n) => users'[n] = users[n]

(* A reading query changes nothing, does not claim what is not so, and     *)
(* denies what is so only by failing.                                      *)
LEMMA ReadsFacts ==
  ASSUME TypeOK, NEW truth \in BOOLEAN, NEW answer \in BOOLEAN, Reads(truth, answer)
  PROVE  /\ users' = users /\ Keeps
         /\ answer => truth
         /\ truth /\ ~answer => errors' > errors
<1>1. CASE QueryFails /\ ~answer
  BY <1>1, DatabaseAssumption DEF QueryFails, Keeps, TypeOK
<1>2. CASE answer = truth /\ UNCHANGED databaseVars
  <2>1. users' = users /\ errors' = errors
    BY <1>2 DEF databaseVars
  <2>2. (answer => truth) /\ (truth => answer)
    BY <1>2
  <2>. QED  BY <2>1, <2>2, DatabaseAssumption DEF Keeps, TypeOK
<1>. QED  BY <1>1, <1>2 DEF Reads

(* An insertion takes a free name or nothing. *)
LEMMA AddUserFacts ==
  ASSUME TypeOK, NEW n \in Names, NEW pw \in Passwords, NEW added \in BOOLEAN, AddUser(n, pw, added)
  PROVE  /\ Keeps
         /\ added => ~Exists(n) /\ users' = [users EXCEPT ![n] = pw]
         /\ ~added => users' = users
         /\ errors' = errors => Exists(n)'
<1>1. CASE ~Exists(n) /\ added /\ users' = [users EXCEPT ![n] = pw] /\ UNCHANGED errors
  BY <1>1, DatabaseAssumption DEF Keeps, TypeOK, Exists
<1>2. CASE Exists(n) /\ ~added /\ UNCHANGED databaseVars
  BY <1>2, DatabaseAssumption DEF Keeps, TypeOK, Exists, databaseVars
<1>3. CASE ~added /\ QueryFails
  BY <1>3, DatabaseAssumption DEF Keeps, TypeOK, QueryFails
<1>. QED  BY <1>1, <1>2, <1>3 DEF AddUser

(* The queries of each action, by the two lemmas above. *)
LEMMA QueryFacts ==
  ASSUME LoginInv
  PROVE  /\ \A answer \in BOOLEAN : CountIsZero(answer) =>
              /\ users' = users /\ Keeps
              /\ (\A n \in Names : ~Exists(n)) /\ ~answer => errors' > errors
         /\ \A n \in Names, answer \in BOOLEAN : UserExists(n, answer) =>
              users' = users /\ Keeps /\ (answer => Exists(n))
         /\ \A n \in Names, pw \in Passwords \cup {NoText}, answer \in BOOLEAN : CheckUser(n, pw, answer) =>
              /\ users' = users /\ Keeps
              /\ answer => users[n] = pw
              /\ users[n] = pw /\ ~answer => errors' > errors
<1>. USE DEF LoginInv
<1>1. ASSUME NEW answer \in BOOLEAN, CountIsZero(answer)
      PROVE  /\ users' = users /\ Keeps
             /\ (\A n \in Names : ~Exists(n)) /\ ~answer => errors' > errors
  <2>1. (\A n \in Names : ~Exists(n)) \in BOOLEAN
    OBVIOUS
  <2>. QED  BY <1>1, <2>1, ReadsFacts DEF CountIsZero
<1>2. ASSUME NEW n \in Names, NEW answer \in BOOLEAN, UserExists(n, answer)
      PROVE  users' = users /\ Keeps /\ (answer => Exists(n))
  <2>1. Exists(n) \in BOOLEAN
    BY DEF Exists
  <2>. QED  BY <1>2, <2>1, ReadsFacts DEF UserExists
<1>3. ASSUME NEW n \in Names, NEW pw \in Passwords \cup {NoText}, NEW answer \in BOOLEAN,
             CheckUser(n, pw, answer)
      PROVE  /\ users' = users /\ Keeps
             /\ answer => users[n] = pw
             /\ users[n] = pw /\ ~answer => errors' > errors
  <2>1. (users[n] = pw) \in BOOLEAN
    OBVIOUS
  <2>. QED  BY <1>3, <2>1, ReadsFacts DEF CheckUser
<1>. QED  BY <1>1, <1>2, <1>3

(* A fresh file, and no program running. *)
LEMMA LoginInit == Init => LoginInv
<1>. SUFFICES ASSUME Init  PROVE LoginInv
  OBVIOUS
<1>1. TypeOK
  BY DatabaseAssumption, ServerIsNoClient DEF Init, InitDatabase, TypeOK
<1>2. WindowsNest /\ WindowFollows
  BY DEF Init, WindowsNest, WindowFollows, Programs
<1>3. RegistrationsStand /\ LoginIsSound
  BY DEF Init, RegistrationsStand, LoginIsSound
<1>4. TestUserFirst
  BY DEF Init, InitDatabase, TestUserFirst, Exists
<1>5. HeardOnce
  BY DEF Init, HeardOnce
<1>. QED  BY <1>1, <1>2, <1>3, <1>4, <1>5 DEF LoginInv

(* What every step leaves of the table. *)
LEMMA KeepsStep == LoginInv /\ [Next]_vars => Keeps
<1>. SUFFICES ASSUME LoginInv, [Next]_vars  PROVE Keeps
  OBVIOUS
<1>0. TypeOK
  BY DEF LoginInv
<1>1. ASSUME UNCHANGED databaseVars  PROVE Keeps
  BY <1>0, <1>1, DatabaseAssumption DEF Keeps, TypeOK, databaseVars
<1>2. ASSUME NEW p \in Programs, StartStep(p)  PROVE Keeps
  BY <1>0, <1>1, <1>2, QueryFacts, AddUserFacts, DatabaseAssumption
     DEF StartStep, Open, CountUsers, AddTestUser
<1>3. ASSUME NEW c \in Clients, LoginStep(c)  PROVE Keeps
  <2>1. name[c] \in Names /\ password[c] \in Passwords
    BY <1>0 DEF TypeOK
  <2>. QED  BY <1>0, <1>1, <1>3, <2>1, QueryFacts, AddUserFacts
            DEF LoginStep, LoginClick, PasswordSubmit, OpenRegister, RegisterClick, Register, CloseDialog
<1>4. ASSUME NEW c \in Clients, ChatStep(c)  PROVE Keeps
  <2>1. name[c] \in Names /\ heard[c] \in Passwords \cup {NoText}
    BY <1>0 DEF TypeOK
  <2>. QED  BY <1>1, <1>4, <2>1, QueryFacts
            DEF ChatStep, OpenBox, ConfirmLogout, DeclineLogout, ServerReads, ServerChecks
<1>5. ASSUME NEW c \in Clients, EndStep(c)  PROVE Keeps
  BY <1>1, <1>5 DEF EndStep, CloseTimer, CloseLogin, CloseChat, CrashClient
<1>6. CASE CrashServer \/ UNCHANGED vars
  BY <1>1, <1>6 DEF CrashServer, vars
<1>. QED  BY <1>2, <1>3, <1>4, <1>5, <1>6 DEF Next

(* Types. *)
LEMMA TypeStep == LoginInv /\ [Next]_vars => TypeOK'
<1>. SUFFICES ASSUME LoginInv, [Next]_vars  PROVE TypeOK'
  OBVIOUS
<1>0. TypeOK /\ users' \in [Names -> Passwords \cup {NoPassword}] /\ errors' \in 0..MaxErrors
  BY KeepsStep DEF LoginInv, Keeps
<1>2. ASSUME NEW p \in Programs, StartStep(p)  PROVE TypeOK'
  <2>1. ASSUME Run(p)
        PROVE  /\ program' \in [Programs -> {"off", "opened", "empty", "running", "lost"}]
               /\ view' \in [Clients -> SUBSET {"login", "chat"}]
    BY <1>0, <2>1 DEF Run, TypeOK
  <2>2. CASE Open(p)
    BY <1>0, <2>2 DEF Open, TypeOK, windowVars, entryVars, sessionVars
  <2>3. CASE CountUsers(p)
    <3>1. /\ program' \in [Programs -> {"off", "opened", "empty", "running", "lost"}]
          /\ view' \in [Clients -> SUBSET {"login", "chat"}]
      BY <1>0, <2>1, <2>3 DEF CountUsers, TypeOK
    <3>. QED  BY <1>0, <2>3, <3>1 DEF CountUsers, TypeOK, entryVars, sessionVars
  <2>4. CASE AddTestUser(p)
    <3>1. /\ program' \in [Programs -> {"off", "opened", "empty", "running", "lost"}]
          /\ view' \in [Clients -> SUBSET {"login", "chat"}]
      BY <2>1, <2>4 DEF AddTestUser
    <3>. QED  BY <1>0, <2>4, <3>1 DEF AddTestUser, TypeOK, entryVars, sessionVars
  <2>. QED  BY <1>2, <2>2, <2>3, <2>4 DEF StartStep
<1>3. ASSUME NEW c \in Clients, LoginStep(c)  PROVE TypeOK'
  <2>1. ASSUME NEW n \in Names, LoginClick(c, n)  PROVE TypeOK'
    BY <1>0, <2>1 DEF LoginClick, TypeOK, sessionVars
  <2>2. ASSUME NEW pw \in Passwords, PasswordSubmit(c, pw)  PROVE TypeOK'
    <3>. DEFINE LogIn == /\ password' = [password EXCEPT ![c] = pw]
                         /\ view' = [view EXCEPT ![c] = {"chat"}]
                         /\ closing' = [closing EXCEPT ![c] = TRUE]
                         /\ dialog' = [dialog EXCEPT ![c] = "none"]
                         /\ \/ session' = [session EXCEPT ![c] = "asking"]
                            \/ session' = [session EXCEPT ![c] = "none"]
    <3>1. /\ LogIn \/ UNCHANGED <<password, view, closing, dialog, session>>
          /\ UNCHANGED <<program, accepting, box, name, heard, told>>
      BY <2>2 DEF PasswordSubmit, ConnectToServer
    <3>2. CASE UNCHANGED <<password, view, closing, dialog, session>>
      BY <1>0, <3>1, <3>2 DEF TypeOK
    <3>3. CASE LogIn
      <4>1. view' \in [Clients -> SUBSET {"login", "chat"}]
        BY <1>0, <3>3 DEF TypeOK
      <4>2. session' \in [Clients -> {"none", "asking", "checking", "accepted", "refused"}]
        BY <1>0, <3>3 DEF TypeOK
      <4>. QED  BY <1>0, <3>1, <3>3, <4>1, <4>2 DEF TypeOK
    <3>. QED  BY <3>1, <3>2, <3>3
  <2>3. CASE OpenRegister(c)
    BY <1>0, <2>3 DEF OpenRegister, TypeOK, entryVars, sessionVars
  <2>4. ASSUME NEW n \in Names, NEW pw \in Passwords, RegisterClick(c, n, pw)  PROVE TypeOK'
    BY <1>0, <2>4 DEF RegisterClick, TypeOK, entryVars, sessionVars
  <2>5. CASE Register(c)
    <3>1. /\ dialog' = [dialog EXCEPT ![c] = "register"]
          /\ UNCHANGED <<program, view, closing, box, name, password, session, heard>>
      BY <2>5 DEF Register, entryVars, sessionVars
    <3>2. accepting' \in [Clients -> BOOLEAN] /\ told' \subseteq Names \X Passwords
      <4>1. name[c] \in Names /\ password[c] \in Passwords
        BY <1>0 DEF TypeOK
      <4>2. \/ /\ accepting' = [accepting EXCEPT ![c] = TRUE]
               /\ told' = told \cup {<<name[c], password[c]>>}
            \/ accepting' = accepting /\ told' = told
        BY <2>5 DEF Register
      <4>3. accepting' \in [Clients -> BOOLEAN]
        BY <1>0, <4>2 DEF TypeOK
      <4>4. <<name[c], password[c]>> \in Names \X Passwords
        BY <4>1
      <4>5. told' \subseteq Names \X Passwords
        BY <1>0, <4>2, <4>4, Zenon DEF TypeOK
      <4>. QED  BY <4>3, <4>5
    <3>. QED  BY <1>0, <3>1, <3>2 DEF TypeOK
  <2>6. CASE CloseDialog(c)
    BY <1>0, <2>6 DEF CloseDialog, TypeOK, entryVars, sessionVars
  <2>. QED  BY <1>3, <2>1, <2>2, <2>3, <2>4, <2>5, <2>6 DEF LoginStep
<1>4. ASSUME NEW c \in Clients, ChatStep(c)  PROVE TypeOK'
  <2>1. CASE OpenBox(c) \/ ConfirmLogout(c) \/ DeclineLogout(c)
    BY <1>0, <2>1 DEF OpenBox, ConfirmLogout, DeclineLogout, BoxCloses, Disconnect, TypeOK, entryVars, sessionVars
  <2>2. CASE ServerReads(c) \/ ServerChecks(c)
    BY <1>0, <2>2 DEF ServerReads, ServerChecks, TypeOK, entryVars, windowVars
  <2>. QED  BY <1>4, <2>1, <2>2 DEF ChatStep
<1>5. ASSUME NEW c \in Clients, EndStep(c)  PROVE TypeOK'
  <2>1. ASSUME NEW how \in {"off", "lost"}, End(c, how), UNCHANGED <<entryVars, told>>  PROVE TypeOK'
    BY <1>0, <2>1 DEF End, Disconnect, TypeOK, entryVars, sessionVars
  <2>2. CASE CloseTimer(c) /\ view[c] # {"login"}
    <3>1. /\ view' = [view EXCEPT ![c] = @ \ {"login"}]
          /\ closing' = [closing EXCEPT ![c] = FALSE]
          /\ UNCHANGED <<program, dialog, accepting, box, session, heard, name, password, told>>
      BY <2>2 DEF CloseTimer, entryVars, sessionVars
    <3>2. view' \in [Clients -> SUBSET {"login", "chat"}]
      BY <1>0, <3>1 DEF TypeOK
    <3>. QED  BY <1>0, <3>1, <3>2 DEF TypeOK
  <2>. QED  BY <1>5, <2>1, <2>2 DEF EndStep, CloseTimer, CloseLogin, CloseChat, CrashClient, CloseLast
<1>6. CASE CrashServer
  BY <1>0, <1>6 DEF CrashServer, TypeOK, windowVars, entryVars, sessionVars
<1>7. CASE UNCHANGED vars
  BY <1>0, <1>7 DEF vars, TypeOK, windowVars, entryVars, sessionVars
<1>. QED  BY <1>2, <1>3, <1>4, <1>5, <1>6, <1>7 DEF Next

(* The steps that leave the windows alone. *)
LEMMA WindowsAlone ==
  ASSUME WindowsNest, WindowFollows, UNCHANGED <<program, view, dialog, closing, box>>,
         \A c \in Clients : session'[c] = session[c] \/ session'[c] = "none" \/ view[c] = {"chat"}
  PROVE  WindowsNest' /\ WindowFollows'
<1>1. WindowFollows'
  BY DEF WindowFollows
<1>2. WindowsNest'
  BY DEF WindowsNest
<1>. QED  BY <1>1, <1>2

(* A client's step that moves its own windows: what has to be shown of it. *)
LEMMA WindowsOfOne ==
  ASSUME WindowsNest, WindowFollows, NEW c \in Clients,
         \A d \in Clients \ {c} :
           /\ program'[d] = program[d] /\ view'[d] = view[d] /\ dialog'[d] = dialog[d]
           /\ closing'[d] = closing[d] /\ box'[d] = box[d] /\ session'[d] = session[d],
         program'[c] # "lost",
         \/ program'[c] = "running" /\ view'[c] \in {{"login"}, {"chat"}}
         \/ program'[c] # "running" /\ view'[c] = {},
         dialog'[c] # "none" => view'[c] = {"login"} /\ box'[c] = "none",
         box'[c] = "first" => view'[c] = {"chat"},
         box'[c] # "none" => program'[c] = "running",
         closing'[c] \/ session'[c] # "none" => view'[c] = {"chat"}
  PROVE  WindowsNest' /\ WindowFollows'
<1>1. WindowFollows'
  <2>1. {} \notin {{"login"}, {"chat"}}
    OBVIOUS
  <2>. QED  BY <2>1 DEF WindowFollows
<1>2. WindowsNest'
  <2>1. /\ dialog'[c] # "none" => view'[c] = {"login"} /\ box'[c] = "none"
        /\ box'[c] = "first" => view'[c] = {"chat"}
        /\ box'[c] # "none" => program'[c] = "running"
        /\ closing'[c] \/ session'[c] # "none" => view'[c] = {"chat"}
        /\ view'[c] \subseteq {"login"} \/ view'[c] = {"chat"}
        /\ view'[c] = {} <=> program'[c] # "running"
    OBVIOUS
  <2>. QED  BY <2>1 DEF WindowsNest
<1>. QED  BY <1>1, <1>2

(* Over all openings, closings, boxes and timers, one window is visible. *)
LEMMA WindowsStep == LoginInv /\ [Next]_vars => WindowsNest' /\ WindowFollows'
<1>. SUFFICES ASSUME LoginInv, [Next]_vars  PROVE WindowsNest' /\ WindowFollows'
  OBVIOUS
<1>0. TypeOK /\ WindowsNest /\ WindowFollows
  BY DEF LoginInv
<1>1. ASSUME NEW p \in Programs, StartStep(p)  PROVE WindowsNest' /\ WindowFollows'
  <2>1. CASE p = Server
    <3>1. \A c \in Clients : program'[c] = program[c]
      BY <1>0, <1>1, <2>1, ServerIsNoClient DEF StartStep, Open, CountUsers, AddTestUser, Run, TypeOK, Programs
    <3>2. UNCHANGED <<view, dialog, closing, box, session>>
      BY <1>1, <2>1 DEF StartStep, Open, CountUsers, AddTestUser, Run, windowVars, sessionVars
    <3>. QED  BY <1>0, <3>1, <3>2 DEF WindowsNest, WindowFollows
  <2>2. CASE p \in Clients
    <3>1. program[p] # "running" /\ p # Server
      BY <1>1, <2>2, ServerIsNoClient DEF StartStep, Open, CountUsers, AddTestUser
    <3>2. view[p] = {} /\ dialog[p] = "none" /\ box[p] = "none" /\ ~closing[p] /\ session[p] = "none"
      BY <1>0, <2>2, <3>1 DEF WindowsNest, TypeOK
    <3>3. UNCHANGED <<dialog, closing, box, session>>
      BY <1>1 DEF StartStep, Open, CountUsers, AddTestUser, windowVars, sessionVars
    <3>4. \/ program' = [program EXCEPT ![p] = "running"] /\ view' = [view EXCEPT ![p] = {"login"}]
          \/ /\ view' = view
             /\ \/ program' = [program EXCEPT ![p] = "opened"]
                \/ program' = [program EXCEPT ![p] = "empty"]
      BY <1>1, <3>1 DEF StartStep, Open, CountUsers, AddTestUser, Run, windowVars, sessionVars
    <3>5. \A d \in Clients \ {p} : program'[d] = program[d] /\ view'[d] = view[d]
      BY <1>0, <3>4 DEF TypeOK, Programs
    <3>6. \/ program'[p] = "running" /\ view'[p] = {"login"}
          \/ program'[p] \in {"opened", "empty"} /\ view'[p] = {}
      BY <1>0, <2>2, <3>2, <3>4 DEF TypeOK
    <3>. QED  BY <1>0, <2>2, <3>2, <3>3, <3>5, <3>6, WindowsOfOne
  <2>. QED  BY <2>1, <2>2 DEF Programs
<1>2. ASSUME NEW c \in Clients, LoginStep(c)  PROVE WindowsNest' /\ WindowFollows'
  <2>1. ASSUME view' = view, UNCHANGED <<program, closing, box, session>>,
               dialog' = dialog \/ \E k \in {"none", "password", "register", "adding"} : dialog' = [dialog EXCEPT ![c] = k],
               dialog[c] # "none" \/ AtLogin(c)
        PROVE  WindowsNest' /\ WindowFollows'
    <3>1. view[c] = {"login"} /\ box[c] = "none" /\ program[c] = "running"
      BY <1>0, <2>1 DEF WindowsNest, WindowFollows, AtLogin
    <3>. QED  BY <1>0, <2>1, <3>1 DEF WindowsNest, WindowFollows, TypeOK
  <2>2. ASSUME NEW pw \in Passwords, PasswordSubmit(c, pw)  PROVE WindowsNest' /\ WindowFollows'
    <3>. DEFINE LogIn == /\ view' = [view EXCEPT ![c] = {"chat"}]
                         /\ closing' = [closing EXCEPT ![c] = TRUE]
                         /\ dialog' = [dialog EXCEPT ![c] = "none"]
                         /\ \E k \in {"asking", "none"} : session' = [session EXCEPT ![c] = k]
    <3>1. /\ LogIn \/ UNCHANGED <<view, closing, dialog, session>>
          /\ UNCHANGED <<program, box>>
          /\ dialog[c] = "password"
      BY <2>2 DEF PasswordSubmit, ConnectToServer
    <3>2. box[c] = "none" /\ program[c] = "running"
      BY <1>0, <3>1 DEF WindowsNest, WindowFollows
    <3>3. CASE LogIn
      BY <1>0, <3>1, <3>2, <3>3, WindowsOfOne DEF TypeOK
    <3>4. CASE UNCHANGED <<view, closing, dialog, session>>
      BY <1>0, <3>1, <3>4, WindowsAlone
    <3>. QED  BY <3>1, <3>3, <3>4
  <2>. QED  BY <1>2, <2>1, <2>2
            DEF LoginStep, LoginClick, OpenRegister, RegisterClick, Register, CloseDialog, sessionVars
<1>3. ASSUME NEW c \in Clients, ChatStep(c)  PROVE WindowsNest' /\ WindowFollows'
  <2>1. CASE OpenBox(c)
    <3>1. view[c] = {"chat"} /\ dialog[c] = "none" /\ program[c] = "running"
      BY <1>0, <2>1 DEF OpenBox, WindowsNest, WindowFollows
    <3>. QED  BY <1>0, <2>1, <3>1, WindowsOfOne DEF OpenBox, TypeOK, sessionVars
  <2>2. CASE ConfirmLogout(c)
    <3>1. dialog[c] = "none" /\ program[c] = "running" /\ ~closing[c]
      BY <1>0, <2>2 DEF ConfirmLogout, WindowsNest
    <3>2. box'[c] # "first"
      BY <1>0, <2>2 DEF ConfirmLogout, BoxCloses, TypeOK
    <3>. QED  BY <1>0, <2>2, <3>1, <3>2, WindowsOfOne DEF ConfirmLogout, Disconnect, BoxCloses, TypeOK
  <2>3. CASE DeclineLogout(c)
    <3>1. dialog[c] = "none" /\ program[c] = "running"
      BY <1>0, <2>3 DEF DeclineLogout, WindowsNest
    <3>2. box'[c] # "first" /\ view[c] \in {{"login"}, {"chat"}}
      BY <1>0, <2>3, <3>1 DEF DeclineLogout, BoxCloses, TypeOK, WindowFollows
    <3>3. closing[c] \/ session[c] # "none" => view[c] = {"chat"}
      BY <1>0 DEF WindowsNest
    <3>. QED  BY <1>0, <2>3, <3>1, <3>2, <3>3, WindowsOfOne DEF DeclineLogout, BoxCloses, TypeOK, sessionVars
  <2>4. CASE ServerReads(c) \/ ServerChecks(c)
    <3>1. view[c] = {"chat"}
      BY <1>0, <2>4 DEF ServerReads, ServerChecks, WindowsNest
    <3>. QED  BY <1>0, <2>4, <3>1, WindowsAlone DEF ServerReads, ServerChecks, windowVars, TypeOK
  <2>. QED  BY <1>3, <2>1, <2>2, <2>3, <2>4 DEF ChatStep
<1>4. ASSUME NEW c \in Clients, EndStep(c)  PROVE WindowsNest' /\ WindowFollows'
  <2>1. CASE End(c, "off")
    <3>1. \A d \in Clients \ {c} :
            /\ program'[d] = program[d] /\ view'[d] = view[d] /\ dialog'[d] = dialog[d]
            /\ closing'[d] = closing[d] /\ box'[d] = box[d] /\ session'[d] = session[d]
      BY <1>0, <2>1 DEF End, Disconnect, TypeOK, Programs
    <3>2. /\ program'[c] = "off" /\ view'[c] = {} /\ dialog'[c] = "none"
          /\ closing'[c] = FALSE /\ box'[c] = "none" /\ session'[c] = "none"
      BY <1>0, <2>1 DEF End, Disconnect, TypeOK, Programs
    <3>. QED  BY <1>0, <3>1, <3>2, WindowsOfOne
  <2>2. CASE CloseTimer(c)
    <3>1. view[c] = {"chat"} /\ program[c] = "running" /\ {"chat"} \ {"login"} = {"chat"} /\ {"chat"} # {"login"}
      BY <1>0, <2>2 DEF CloseTimer, WindowsNest
    <3>2. /\ view' = [view EXCEPT ![c] = view[c] \ {"login"}]
          /\ UNCHANGED <<program, dialog, box, session>> /\ closing' = [closing EXCEPT ![c] = FALSE]
      BY <2>2, <3>1 DEF CloseTimer, sessionVars
    <3>3. \A d \in Clients : view'[d] = view[d]
      BY <1>0, <3>1, <3>2 DEF TypeOK
    <3>4. \A d \in Clients : closing'[d] => closing[d]
      BY <1>0, <3>2 DEF TypeOK
    <3>. QED  BY <1>0, <3>2, <3>3, <3>4 DEF WindowsNest, WindowFollows
  <2>. QED  BY <1>4, <2>1, <2>2 DEF EndStep, CloseLogin, CloseChat, CloseLast, CrashClient
<1>5. CASE CrashServer
  <2>1. \A c \in Clients : program'[c] = program[c] /\ session'[c] = "none"
    BY <1>0, <1>5, ServerIsNoClient DEF CrashServer, TypeOK, Programs
  <2>2. UNCHANGED <<view, dialog, closing, box>>
    BY <1>5 DEF CrashServer, windowVars
  <2>. QED  BY <1>0, <2>1, <2>2 DEF WindowsNest, WindowFollows
<1>6. CASE UNCHANGED vars
  BY <1>0, <1>6, WindowsAlone DEF vars, windowVars, sessionVars
<1>. QED  BY <1>1, <1>2, <1>3, <1>4, <1>5, <1>6 DEF Next

(* Only a successful insertion is reported as a success. *)
LEMMA RegistrationsStep == LoginInv /\ [Next]_vars => RegistrationsStand'
<1>. SUFFICES ASSUME LoginInv, [Next]_vars  PROVE RegistrationsStand'
  OBVIOUS
<1>0. TypeOK /\ RegistrationsStand /\ Keeps /\ NoPassword \notin Passwords
  BY KeepsStep, DatabaseAssumption DEF LoginInv
<1>1. \A n \in Names, pw \in Passwords : <<n, pw>> \in told => users'[n] = pw
  BY <1>0 DEF RegistrationsStand, Keeps, Exists
<1>2. CASE told' = told
  BY <1>1, <1>2 DEF RegistrationsStand
<1>3. ASSUME NEW c \in Clients, Register(c)  PROVE RegistrationsStand'
  <2>1. name[c] \in Names /\ password[c] \in Passwords
    BY <1>0 DEF TypeOK
  <2>2. \/ told' = told
        \/ users' = [users EXCEPT ![name[c]] = password[c]] /\ told' = told \cup {<<name[c], password[c]>>}
    BY <1>0, <1>3, <2>1, AddUserFacts DEF Register
  <2>3. CASE users' = [users EXCEPT ![name[c]] = password[c]] /\ told' = told \cup {<<name[c], password[c]>>}
    <3>1. users'[name[c]] = password[c]
      BY <1>0, <2>1, <2>3 DEF TypeOK
    <3>2. ASSUME NEW n \in Names, NEW pw \in Passwords, <<n, pw>> \in told'  PROVE users'[n] = pw
      BY <1>1, <2>3, <3>1, <3>2
    <3>. QED  BY <3>2 DEF RegistrationsStand
  <2>. QED  BY <1>2, <2>2, <2>3
<1>4. told' = told \/ \E c \in Clients : Register(c)
  BY DEF Next, vars, StartStep, LoginStep, ChatStep, EndStep, Open, CountUsers, AddTestUser, LoginClick,
         PasswordSubmit, OpenRegister, RegisterClick, CloseDialog, OpenBox, ConfirmLogout, DeclineLogout,
         ServerReads, ServerChecks, CloseTimer, CloseLogin, CloseChat, CrashClient, CrashServer
<1>. QED  BY <1>2, <1>3, <1>4

(* A password is heard when it is read, and forgotten with the session. *)
LEMMA HeardStep == LoginInv /\ [Next]_vars => HeardOnce'
<1>. SUFFICES ASSUME LoginInv, [Next]_vars  PROVE HeardOnce'
  OBVIOUS
<1>. DEFINE Heard(d) == heard[d] = NoText \/ (heard[d] = password[d] /\ session[d] \notin {"none", "asking"})
<1>0. TypeOK /\ WindowsNest /\ \A d \in Clients : Heard(d)
  BY DEF LoginInv, HeardOnce
<1>1. ASSUME NEW c \in Clients, LoginStep(c)  PROVE \A d \in Clients : Heard(d)'
  <2>1. heard' = heard /\ ((password' = password /\ session' = session) \/ dialog[c] # "none")
    BY <1>1 DEF LoginStep, LoginClick, PasswordSubmit, OpenRegister, RegisterClick, Register, CloseDialog,
                entryVars, sessionVars
  <2>2. \A d \in Clients \ {c} : password'[d] = password[d] /\ session'[d] = session[d]
    BY <1>0, <1>1 DEF LoginStep, LoginClick, PasswordSubmit, ConnectToServer, OpenRegister, RegisterClick,
                      Register, CloseDialog, entryVars, sessionVars, TypeOK
  <2>3. dialog[c] # "none" => heard[c] = NoText
    BY <1>0 DEF WindowsNest
  <2>4. Heard(c)'
    BY <1>0, <2>1, <2>3
  <2>5. ASSUME NEW d \in Clients \ {c}  PROVE Heard(d)'
    BY <1>0, <2>1, <2>2
  <2>. QED  BY <2>4, <2>5
<1>2. ASSUME NEW c \in Clients, ServerReads(c) \/ ServerChecks(c)  PROVE \A d \in Clients : Heard(d)'
  BY <1>0, <1>2 DEF ServerReads, ServerChecks, TypeOK, entryVars
<1>3. ASSUME NEW c \in Clients, OpenBox(c) \/ ConfirmLogout(c) \/ DeclineLogout(c) \/ EndStep(c)
      PROVE  \A d \in Clients : Heard(d)'
  <2>1. password' = password /\ (Disconnect(c) \/ UNCHANGED <<session, heard>>)
    BY <1>3 DEF OpenBox, ConfirmLogout, DeclineLogout, EndStep, CloseTimer, CloseLogin, CloseChat,
                CrashClient, CloseLast, End, entryVars, sessionVars
  <2>2. CASE UNCHANGED <<session, heard>>
    BY <1>0, <2>1, <2>2
  <2>3. ASSUME Disconnect(c), NEW d \in Clients  PROVE Heard(d)'
    <3>1. heard'[d] = NoText \/ (heard'[d] = heard[d] /\ session'[d] = session[d])
      BY <1>0, <2>3 DEF Disconnect, TypeOK
    <3>. QED  BY <1>0, <2>1, <3>1
  <2>. QED  BY <2>1, <2>2, <2>3
<1>4. ASSUME (\E p \in Programs : StartStep(p)) \/ CrashServer \/ UNCHANGED vars
      PROVE  \A d \in Clients : Heard(d)'
  <2>1. password' = password
    BY <1>4 DEF StartStep, Open, CountUsers, AddTestUser, CrashServer, vars, entryVars
  <2>2. UNCHANGED <<session, heard>> \/ \A d \in Clients : heard'[d] = NoText
    BY <1>4 DEF StartStep, Open, CountUsers, AddTestUser, CrashServer, vars, sessionVars
  <2>3. ASSUME NEW d \in Clients  PROVE Heard(d)'
    BY <1>0, <2>1, <2>2
  <2>. QED  BY <2>3
<1>5. \A d \in Clients : Heard(d)'
  BY <1>1, <1>2, <1>3, <1>4 DEF Next, ChatStep
<1>. QED  BY <1>5 DEF HeardOnce

(* What a window was opened for remains true, for the table only grows. *)
LEMMA SoundStep == LoginInv /\ [Next]_vars => LoginIsSound'
<1>. SUFFICES ASSUME LoginInv, [Next]_vars  PROVE LoginIsSound'
  OBVIOUS
<1>. DEFINE Sound(c) == /\ dialog[c] = "password" => Exists(name[c])
                        /\ "chat" \in view[c] => users[name[c]] = password[c]
                        /\ session[c] = "refused" => errors > 0 \/ heard[c] = NoText
                        /\ session[c] = "accepted" => heard[c] = password[c]
<1>0. /\ TypeOK /\ LoginIsSound /\ WindowsNest /\ WindowFollows /\ HeardOnce
      /\ Keeps /\ NoPassword \notin Passwords
  BY KeepsStep, DatabaseAssumption DEF LoginInv
<1>1. errors \in Nat /\ errors' \in Nat /\ errors <= errors'
  BY <1>0, DatabaseAssumption DEF TypeOK, Keeps
<1>2. ASSUME NEW d \in Clients, UNCHANGED <<name, password>>,
             dialog'[d] = "password" => dialog[d] = "password",
             "chat" \in view'[d] => "chat" \in view[d],
             session'[d] \in {"refused", "accepted"} => session'[d] = session[d] /\ heard'[d] = heard[d]
      PROVE  Sound(d)'
  <2>1. name[d] \in Names /\ password[d] \in Passwords
    BY <1>0 DEF TypeOK
  <2>2. Exists(name[d]) => users'[name[d]] = users[name[d]]
    BY <1>0, <2>1 DEF Keeps
  <2>3. Sound(d)
    BY <1>0 DEF LoginIsSound
  <2>. QED  BY <1>0, <1>1, <1>2, <2>1, <2>2, <2>3 DEF Exists
<1>3. ASSUME NEW c \in Clients, NEW d \in Clients \ {c}, LoginStep(c) \/ ChatStep(c) \/ EndStep(c)
      PROVE  Sound(d)'
  <2>1. /\ dialog'[d] = dialog[d] /\ view'[d] = view[d] /\ session'[d] = session[d]
        /\ name'[d] = name[d] /\ password'[d] = password[d] /\ heard'[d] = heard[d]
    BY <1>0, <1>3 DEF TypeOK, LoginStep, ChatStep, EndStep, LoginClick, PasswordSubmit, OpenRegister,
         RegisterClick, Register, CloseDialog, OpenBox, ConfirmLogout, DeclineLogout, ServerReads, ServerChecks,
         CloseTimer, CloseLogin, CloseChat, CrashClient, CloseLast, End, ConnectToServer, Disconnect,
         windowVars, entryVars, sessionVars
  <2>2. name[d] \in Names /\ password[d] \in Passwords
    BY <1>0 DEF TypeOK
  <2>3. Exists(name[d]) => users'[name[d]] = users[name[d]]
    BY <1>0, <2>2 DEF Keeps
  <2>4. Sound(d)
    BY <1>0 DEF LoginIsSound
  <2>. QED  BY <1>0, <1>1, <2>1, <2>2, <2>3, <2>4 DEF Exists
<1>4. ASSUME NEW c \in Clients, LoginStep(c)  PROVE Sound(c)'
  <2>0. name[c] \in Names /\ password[c] \in Passwords
    BY <1>0 DEF TypeOK
  <2>1. ASSUME NEW n \in Names, LoginClick(c, n)  PROVE Sound(c)'
    <3>1. view[c] = {"login"} /\ session[c] = "none"
      BY <1>0, <2>1 DEF LoginClick, AtLogin, WindowsNest, WindowFollows, TypeOK
    <3>2. \/ UNCHANGED <<dialog, name>>
          \/ Exists(n) /\ users' = users /\ name' = [name EXCEPT ![c] = n]
      BY <2>1, QueryFacts DEF LoginClick
    <3>3. CASE UNCHANGED <<dialog, name>>
      BY <1>2, <2>1, <3>3 DEF LoginClick, sessionVars
    <3>4. CASE Exists(n) /\ users' = users /\ name' = [name EXCEPT ![c] = n]
      BY <1>0, <2>1, <3>1, <3>4 DEF LoginClick, Exists, TypeOK, sessionVars
    <3>. QED  BY <3>2, <3>3, <3>4
  <2>2. ASSUME NEW pw \in Passwords, PasswordSubmit(c, pw)  PROVE Sound(c)'
    <3>1. \/ UNCHANGED <<password, view, dialog, session>>
          \/ /\ users[name[c]] = pw /\ users' = users
             /\ password' = [password EXCEPT ![c] = pw] /\ dialog' = [dialog EXCEPT ![c] = "none"]
             /\ \E k \in {"asking", "none"} : session' = [session EXCEPT ![c] = k]
      BY <2>0, <2>2, QueryFacts DEF PasswordSubmit, ConnectToServer
    <3>2. name' = name /\ heard' = heard
      BY <2>2 DEF PasswordSubmit
    <3>3. CASE UNCHANGED <<password, view, dialog, session>>
      BY <1>2, <3>2, <3>3
    <3>. QED  BY <1>0, <3>1, <3>2, <3>3 DEF TypeOK
  <2>3. CASE OpenRegister(c) \/ CloseDialog(c) \/ Register(c)
    <3>1. /\ UNCHANGED <<name, password, view, session, heard>>
          /\ \E k \in {"register", "none"} : dialog' = [dialog EXCEPT ![c] = k]
      BY <2>3 DEF OpenRegister, CloseDialog, Register, entryVars, sessionVars
    <3>. QED  BY <1>0, <1>2, <3>1 DEF TypeOK
  <2>4. ASSUME NEW n \in Names, NEW pw \in Passwords, RegisterClick(c, n, pw)  PROVE Sound(c)'
    <3>1. dialog[c] = "register" /\ view[c] = {"login"} /\ session[c] = "none"
      BY <1>0, <2>4 DEF RegisterClick, WindowsNest, TypeOK
    <3>2. UNCHANGED <<view, session, heard>> /\ (dialog' = dialog \/ dialog' = [dialog EXCEPT ![c] = "adding"])
      BY <2>4 DEF RegisterClick, sessionVars
    <3>. QED  BY <1>0, <3>1, <3>2 DEF TypeOK
  <2>. QED  BY <1>4, <2>1, <2>2, <2>3, <2>4 DEF LoginStep
<1>5. ASSUME NEW c \in Clients, ChatStep(c)  PROVE Sound(c)'
  <2>1. CASE OpenBox(c) \/ DeclineLogout(c)
    BY <1>2, <2>1 DEF OpenBox, DeclineLogout, entryVars, sessionVars
  <2>2. CASE ConfirmLogout(c)
    <3>1. view'[c] = {"login"} /\ session'[c] = "none" /\ UNCHANGED <<dialog, name, password>>
      BY <1>0, <2>2 DEF ConfirmLogout, Disconnect, TypeOK, entryVars
    <3>. QED  BY <1>2, <3>1
  <2>3. CASE ServerReads(c)
    <3>1. session'[c] = "checking" /\ UNCHANGED <<view, dialog, name, password>>
      BY <1>0, <2>3 DEF ServerReads, TypeOK, windowVars, entryVars
    <3>. QED  BY <1>2, <3>1
  <2>4. CASE ServerChecks(c)
    <3>1. view[c] = {"chat"} /\ dialog[c] = "none" /\ UNCHANGED <<view, dialog, name, password, heard>>
      BY <1>0, <2>4 DEF ServerChecks, WindowsNest, windowVars, entryVars
    <3>2. /\ users[name[c]] = password[c] /\ name[c] \in Names /\ password[c] \in Passwords
          /\ heard[c] \in Passwords \cup {NoText} /\ (heard[c] = NoText \/ heard[c] = password[c])
      BY <1>0, <3>1 DEF LoginIsSound, TypeOK, HeardOnce
    <3>3. PICK match \in BOOLEAN :
            /\ CheckUser(name[c], heard[c], match)
            /\ session' = [session EXCEPT ![c] = IF match THEN "accepted" ELSE "refused"]
      BY <2>4 DEF ServerChecks
    <3>4. /\ users' = users
          /\ match => users[name[c]] = heard[c]
          /\ users[name[c]] = heard[c] /\ ~match => errors' > errors
      BY <3>2, <3>3, QueryFacts
    <3>5. CASE match
      <4>1. session'[c] = "accepted" /\ heard[c] = password[c]
        BY <1>0, <3>2, <3>3, <3>4, <3>5 DEF TypeOK
      <4>. QED  BY <3>1, <3>2, <3>4, <4>1
    <3>6. CASE ~match
      <4>1. session'[c] = "refused" /\ (heard[c] = NoText \/ errors' > errors)
        BY <1>0, <3>2, <3>3, <3>4, <3>6 DEF TypeOK
      <4>. QED  BY <1>1, <3>1, <3>2, <3>4, <4>1
    <3>. QED  BY <3>5, <3>6
  <2>. QED  BY <1>5, <2>1, <2>2, <2>3, <2>4 DEF ChatStep
<1>6. ASSUME NEW c \in Clients, EndStep(c)  PROVE Sound(c)'
  <2>1. UNCHANGED <<name, password>>
    BY <1>6 DEF EndStep, CloseTimer, CloseLogin, CloseChat, CrashClient, entryVars
  <2>2. dialog'[c] = "none" \/ dialog' = dialog
    BY <1>0, <1>6 DEF EndStep, CloseTimer, CloseLogin, CloseChat, CrashClient, CloseLast, End, Disconnect, TypeOK, sessionVars
  <2>3. session'[c] = "none" \/ UNCHANGED <<session, heard>>
    BY <1>0, <1>6 DEF EndStep, CloseTimer, CloseLogin, CloseChat, CrashClient, CloseLast, End, Disconnect, TypeOK, sessionVars
  <2>4. view'[c] \subseteq view[c]
    BY <1>0, <1>6 DEF EndStep, CloseTimer, CloseLogin, CloseChat, CrashClient, CloseLast, End, Disconnect, TypeOK, sessionVars
  <2>. QED  BY <1>2, <2>1, <2>2, <2>3, <2>4
<1>7. CASE (\E p \in Programs : StartStep(p)) \/ CrashServer \/ UNCHANGED vars
  <2>1. ASSUME NEW d \in Clients  PROVE Sound(d)'
    <3>1. UNCHANGED <<dialog, name, password>> /\ (session'[d] = "none" \/ UNCHANGED <<session, heard>>)
      BY <1>7 DEF StartStep, Open, CountUsers, AddTestUser, CrashServer, vars, windowVars, entryVars, sessionVars
    <3>2. "chat" \in view'[d] => "chat" \in view[d]
      BY <1>0, <1>7 DEF StartStep, Open, CountUsers, AddTestUser, Run, CrashServer, vars, windowVars, TypeOK
    <3>. QED  BY <1>2, <3>1, <3>2
  <2>. QED  BY <2>1 DEF LoginIsSound
<1>8. ASSUME NEW c \in Clients, LoginStep(c) \/ ChatStep(c) \/ EndStep(c)  PROVE LoginIsSound'
  <2>1. ASSUME NEW d \in Clients  PROVE Sound(d)'
    BY <1>3, <1>4, <1>5, <1>6, <1>8
  <2>. QED  BY <2>1 DEF LoginIsSound
<1>. QED  BY <1>7, <1>8 DEF Next

(* The first name that is taken is the test user's. *)
LEMMA TestUserStep == LoginInv /\ [Next]_vars => TestUserFirst'
<1>. SUFFICES ASSUME LoginInv, [Next]_vars, errors' = 0  PROVE TestUserFirst'
  BY DEF TestUserFirst
<1>0. /\ TypeOK /\ WindowsNest /\ WindowFollows /\ TestUserFirst /\ Keeps
      /\ NoPassword \notin Passwords /\ TestUser \in Names /\ TestPassword \in Passwords
  BY KeepsStep, DatabaseAssumption DEF LoginInv
<1>1. errors = 0
  BY <1>0, DatabaseAssumption DEF TypeOK, Keeps
<1>2. CASE users[TestUser] = TestPassword
  <2>1. users'[TestUser] = TestPassword
    BY <1>0, <1>2 DEF Keeps, Exists
  <2>. QED  BY <2>1 DEF TestUserFirst
<1>3. CASE users[TestUser] # TestPassword
  <2>1. (\A n \in Names : ~Exists(n)) /\ (\A p \in Programs : program[p] # "running")
    BY <1>0, <1>1, <1>3 DEF TestUserFirst
  <2>2. \A c \in Clients : view[c] = {} /\ dialog[c] = "none" /\ box[c] = "none" /\ session[c] = "none" /\ ~closing[c]
    <3>. SUFFICES ASSUME NEW c \in Clients
                  PROVE  view[c] = {} /\ dialog[c] = "none" /\ box[c] = "none" /\ session[c] = "none" /\ ~closing[c]
      OBVIOUS
    <3>1. view[c] = {}
      BY <1>0, <2>1 DEF WindowsNest, Programs
    <3>2. dialog[c] = "none" /\ session[c] = "none"
      BY <1>0, <3>1 DEF WindowsNest
    <3>3. box[c] = "none" /\ ~closing[c]
      BY <1>0, <2>1, <3>1 DEF WindowsNest, Programs
    <3>. QED  BY <3>1, <3>2, <3>3
  <2>3. ASSUME users' = users, \A p \in Programs : program'[p] # "running"  PROVE TestUserFirst'
    BY <2>1, <2>3 DEF TestUserFirst, Exists
  <2>4. ASSUME NEW p \in Programs, StartStep(p)  PROVE TestUserFirst'
    <3>1. CASE Open(p)
      BY <1>0, <2>1, <2>3, <3>1 DEF Open, TypeOK, databaseVars
    <3>2. CASE CountUsers(p)
      <4>1. users' = users /\ program' = [program EXCEPT ![p] = "empty"]
        BY <1>0, <1>1, <2>1, <3>2, QueryFacts DEF CountUsers
      <4>. QED  BY <1>0, <2>1, <2>3, <4>1 DEF TypeOK
    <3>3. CASE AddTestUser(p)
      <4>1. PICK added \in BOOLEAN : AddUser(TestUser, TestPassword, added)
        BY <3>3 DEF AddTestUser
      <4>2. Exists(TestUser)' /\ (added => users' = [users EXCEPT ![TestUser] = TestPassword]) /\ (~added => users' = users)
        BY <1>0, <1>1, <4>1, AddUserFacts
      <4>3. added
        BY <1>0, <2>1, <4>2 DEF Exists
      <4>4. users'[TestUser] = TestPassword
        BY <1>0, <4>2, <4>3 DEF TypeOK
      <4>. QED  BY <4>4 DEF TestUserFirst
    <3>. QED  BY <2>4, <3>1, <3>2, <3>3 DEF StartStep
  <2>5. ASSUME NEW c \in Clients, LoginStep(c) \/ ChatStep(c) \/ EndStep(c)  PROVE TestUserFirst'
    <3>1. ~LoginStep(c) /\ ~ChatStep(c)
      BY <2>2 DEF LoginStep, ChatStep, AtLogin, LoginClick, PasswordSubmit, OpenRegister, RegisterClick,
                  Register, CloseDialog, OpenBox, ConfirmLogout, DeclineLogout, ServerReads, ServerChecks
    <3>2. /\ users' = users
          /\ \/ program' = program
             \/ program' = [program EXCEPT ![c] = "off"]
             \/ program' = [program EXCEPT ![c] = "lost"]
      BY <2>5, <3>1 DEF EndStep, CloseTimer, CloseLogin, CloseChat, CrashClient, CloseLast, End, databaseVars
    <3>. QED  BY <1>0, <2>1, <2>3, <3>2 DEF TypeOK
  <2>6. CASE CrashServer
    BY <1>0, <2>1, <2>3, <2>6 DEF CrashServer, databaseVars, TypeOK
  <2>7. CASE UNCHANGED vars
    BY <2>1, <2>3, <2>7 DEF vars, databaseVars
  <2>. QED  BY <2>4, <2>5, <2>6, <2>7 DEF Next
<1>. QED  BY <1>2, <1>3

(* The invariant holds in every reachable state. *)
THEOREM LoginInvariance == Spec => []LoginInv
<1>1. LoginInv /\ [Next]_vars => LoginInv'
  BY TypeStep, WindowsStep, RegistrationsStep, HeardStep, SoundStep, TestUserStep DEF LoginInv
<1>. QED  BY LoginInit, <1>1, PTL DEF Spec

(* Whoever was told of a successful registration has the account for ever. *)
THEOREM RegistrationsKept == Spec => []RegistrationsStand
<1>1. LoginInv => RegistrationsStand
  BY DEF LoginInv
<1>. QED  BY <1>1, LoginInvariance, PTL

(* What was checked before a window opened is true while it is open. *)
THEOREM LoginsAreSound == Spec => []LoginIsSound
<1>1. LoginInv => LoginIsSound
  BY DEF LoginInv
<1>. QED  BY <1>1, LoginInvariance, PTL

(* A running client has one of its two windows, and ends only by its user. *)
THEOREM OneWindowIsThere == Spec => []WindowFollows
<1>1. LoginInv => WindowFollows
  BY DEF LoginInv
<1>. QED  BY <1>1, LoginInvariance, PTL

(* However many programs start at once, the first user is the test user. *)
THEOREM TestUserIsFirst == Spec => []TestUserFirst
<1>1. LoginInv => TestUserFirst
  BY DEF LoginInv
<1>. QED  BY <1>1, LoginInvariance, PTL

(* An insertion is a step of the abstract table, or no step. *)
LEMMA InsertionStep ==
  ASSUME TypeOK, NEW n \in Names, NEW pw \in Passwords, NEW added \in BOOLEAN, AddUser(n, pw, added),
         told' = told \/ (added /\ told' = told \cup {<<n, pw>>})
  PROVE  [Table!Next]_<<users, told>>
<1>1. CASE added
  <2>1. users[n] = NoPassword /\ users' = [users EXCEPT ![n] = pw]
    BY <1>1, AddUserFacts DEF Exists
  <2>2. Table!Create(n, pw)
    BY <2>1 DEF Table!Create
  <2>. QED  BY <2>2 DEF Table!Next
<1>2. CASE ~added
  BY <1>2, AddUserFacts
<1>. QED  BY <1>1, <1>2

(* All the programs together use the table as UserTable says. *)
THEOREM TableRefinement == Spec => ImplementsTable
<1>1. Init => Table!Init
  BY DEF Init, InitDatabase, Table!Init
<1>2. LoginInv /\ [Next]_vars => [Table!Next]_<<users, told>>
  <2>. SUFFICES ASSUME LoginInv, [Next]_vars  PROVE [Table!Next]_<<users, told>>
    OBVIOUS
  <2>0. TypeOK
    BY DEF LoginInv
  <2>1. ASSUME NEW p \in Programs, StartStep(p)  PROVE [Table!Next]_<<users, told>>
    <3>1. CASE AddTestUser(p)
      BY <2>0, <3>1, InsertionStep, DatabaseAssumption DEF AddTestUser
    <3>. QED  BY <2>1, <3>1, QueryFacts DEF StartStep, Open, CountUsers, databaseVars
  <2>2. ASSUME NEW c \in Clients, LoginStep(c)  PROVE [Table!Next]_<<users, told>>
    <3>0. name[c] \in Names /\ password[c] \in Passwords
      BY <2>0 DEF TypeOK
    <3>1. CASE Register(c)
      BY <2>0, <3>0, <3>1, InsertionStep DEF Register
    <3>. QED  BY <2>2, <3>0, <3>1, QueryFacts
              DEF LoginStep, LoginClick, PasswordSubmit, OpenRegister, RegisterClick, CloseDialog, databaseVars
  <2>3. ASSUME NEW c \in Clients, ChatStep(c)  PROVE [Table!Next]_<<users, told>>
    <3>0. name[c] \in Names /\ heard[c] \in Passwords \cup {NoText}
      BY <2>0 DEF TypeOK
    <3>. QED  BY <2>3, <3>0, QueryFacts
              DEF ChatStep, OpenBox, ConfirmLogout, DeclineLogout, ServerReads, ServerChecks, databaseVars
  <2>4. ASSUME NEW c \in Clients, EndStep(c)  PROVE [Table!Next]_<<users, told>>
    BY <2>4 DEF EndStep, CloseTimer, CloseLogin, CloseChat, CrashClient, databaseVars
  <2>5. CASE CrashServer \/ UNCHANGED vars
    BY <2>5 DEF CrashServer, vars, databaseVars
  <2>. QED  BY <2>1, <2>2, <2>3, <2>4, <2>5 DEF Next
<1>. QED  BY <1>1, <1>2, LoginInvariance, PTL DEF Spec, ImplementsTable, Table!Spec, Table!tableVars
=============================================================================
