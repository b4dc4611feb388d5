------------------------------ MODULE ChatRoom ------------------------------
(***************************************************************************)
(* What the server promises, without threads, sockets or a mutex: one room *)
(* with one list of posts.  A session that comes in is given the latest    *)
(* MAX_HISTORY_SIZE posts and then every later one, in the order of the    *)
(* list, each once; it is let go only after it has been given all of them, *)
(* and it never comes back.                                                *)
(***************************************************************************)
EXTENDS Integers, Sequences

CONSTANTS Sessions, Messages, MAX_HISTORY_SIZE

VARIABLES
  place,    \* each session is "outside", "inside" or "gone"
  posts,    \* all posts in order
  skipped,  \* how many posts a session was too late for
  given     \* the posts each session was given

roomVars == <<place, posts, skipped, given>>

Init ==
  /\ place = [c \in Sessions |-> "outside"]
  /\ posts = << >>
  /\ skipped = [c \in Sessions |-> 0]
  /\ given = [c \in Sessions |-> << >>]

Inside(c) == place[c] = "inside"

UpToDate(c) == skipped[c] + Len(given[c]) = Len(posts)

Enter(c) ==
  /\ place[c] = "outside"
  /\ place' = [place EXCEPT ![c] = "inside"]
  /\ skipped' = [skipped EXCEPT ![c] = IF Len(posts) > MAX_HISTORY_SIZE
                                       THEN Len(posts) - MAX_HISTORY_SIZE ELSE 0]
  /\ UNCHANGED <<posts, given>>

(* A post is made once, by someone inside. *)
Post(c, m) ==
  /\ Inside(c)
  /\ \A i \in DOMAIN posts : posts[i] # m
  /\ posts' = Append(posts, m)
  /\ UNCHANGED <<place, skipped, given>>

Give(c) ==
  /\ Inside(c)
  /\ ~UpToDate(c)
  /\ given' = [given EXCEPT ![c] = Append(@, posts[skipped[c] + Len(@) + 1])]
  /\ UNCHANGED <<place, posts, skipped>>

LetGo(c) ==
  /\ Inside(c)
  /\ UpToDate(c)
  /\ place' = [place EXCEPT ![c] = "gone"]
  /\ UNCHANGED <<posts, skipped, given>>

Next ==
  \E c \in Sessions :
    \/ Enter(c)
    \/ \E m \in Messages : Post(c, m)
    \/ Give(c)
    \/ LetGo(c)

Safety == Init /\ [][Next]_roomVars

(* Whoever is inside is eventually given the next post. *)
Spec == Safety /\ \A c \in Sessions : WF_roomVars(Give(c))
=============================================================================
