---------------------------- MODULE UserDatabase ----------------------------
(***************************************************************************)
(* DatabaseManager: the queries of several programs on one SQLite file.    *)
(* SQLite serialises them, so a query is a step; what lies between two     *)
(* queries of one handler is not protected by anything.                    *)
(*                                                                         *)
(* The second argument of a query, or the third, is its answer.  A query   *)
(* that fails changes nothing and reads as FALSE, whatever was asked.      *)
(***************************************************************************)
EXTENDS Integers

CONSTANTS
  Names,         \* usernames, trimmed and not empty
  Passwords,     \* passwords, trimmed and not empty
  NoPassword,    \* the name is not in the table
  TestUser,      \* "danya"
  TestPassword,  \* "123"
  MaxErrors      \* bound: queries that fail

ASSUME DatabaseAssumption ==
  /\ NoPassword \notin Passwords
  /\ TestUser \in Names /\ TestPassword \in Passwords
  /\ MaxErrors \in Nat

VARIABLES
  users,    \* the table: [Names -> Passwords \cup {NoPassword}]
  errors    \* history variable: queries that have failed

databaseVars == <<users, errors>>

(* CREATE TABLE IF NOT EXISTS on a fresh file. *)
InitDatabase == users = [n \in Names |-> NoPassword] /\ errors = 0

Exists(n) == users[n] # NoPassword

(* A busy or broken file. *)
QueryFails == errors < MaxErrors /\ errors' = errors + 1 /\ UNCHANGED users

(* A query that only reads answers truth, or fails. *)
Reads(truth, answer) ==
  \/ answer = truth /\ UNCHANGED databaseVars
  \/ ~answer /\ QueryFails

(* Users are counted, and the number compared with zero. *)
CountIsZero(answer) == Reads(\A n \in Names : ~Exists(n), answer)

(* Faulty variant: INSERT OR REPLACE. *)
AddUserReplacing(n, pw, added) ==
  \/ users' = [users EXCEPT ![n] = pw] /\ added /\ UNCHANGED errors
  \/ ~added /\ QueryFails

(* INSERT: the primary key refuses a name that is in the table. *)
AddUser(n, pw, added) ==
  \/ ~Exists(n) /\ added /\ users' = [users EXCEPT ![n] = pw] /\ UNCHANGED errors
  \/ Exists(n) /\ ~added /\ UNCHANGED databaseVars
  \/ ~added /\ QueryFails

(* Faulty variant: a name in the table is enough. *)
CheckUserByName(n, pw, match) == Reads(Exists(n), match)

CheckUser(n, pw, match) == Reads(users[n] = pw, match)

UserExists(n, exists) == Reads(Exists(n), exists)
=============================================================================
