----------------------------- MODULE UserTable -----------------------------
(* What the users table promises to all programs that share it: a name is  *)
(* taken once and keeps its password for ever, and who was told that a     *)
(* registration succeeded was told so in the step that took the name.      *)

CONSTANTS Names, Passwords, NoPassword

VARIABLES
  users,   \* the password of each name, or NoPassword
  told     \* the registrations that were reported as successful

tableVars == <<users, told>>

Init == users = [n \in Names |-> NoPassword] /\ told = {}

(* The account is made for somebody who asked for it, or on the quiet. *)
Create(n, pw) ==
  /\ users[n] = NoPassword
  /\ users' = [users EXCEPT ![n] = pw]
  /\ told' \in {told, told \cup {<<n, pw>>}}

Next == \E n \in Names, pw \in Passwords : Create(n, pw)

Spec == Init /\ [][Next]_tableVars
=============================================================================
