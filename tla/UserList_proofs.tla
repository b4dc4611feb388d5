--------------------------- MODULE UserList_proofs --------------------------
(***************************************************************************)
(* The list of online users tells the truth, for any number of users, any  *)
(* texts in the search field and any number of requests that cross.        *)
(***************************************************************************)
EXTENDS UserList, FiniteSetTheorems, TLAPS

Users == Sessions \cup {Me}

(* The sets of users that are counted are finite. *)
LEMMA UsersAreFinite ==
  \A S \in SUBSET Users : IsFiniteSet(S) /\ Cardinality(S) \in Nat
  BY ListAssumption, FS_AddElement, FS_Subset, FS_CardinalityType DEF Users

(* A handler has taken no list or one list. *)
LEMMA TakenFacts ==
  ASSUME TypeOK
  PROVE  /\ Cardinality(taken) \in Nat
         /\ taken = {} <=> Cardinality(taken) = 0
         /\ \A list \in taken : taken = {list} /\ Cardinality(taken) = 1
         /\ requests \in Nat /\ Len(answers) \in Nat
<1>1. IsFiniteSet(taken)
  <2>1. IsFiniteSet(Users)  BY UsersAreFinite
  <2>2. IsFiniteSet(SUBSET Users)  BY <2>1, FS_SUBSET
  <2>. QED  BY <2>2, FS_Subset DEF TypeOK, Users
<1>2. Cardinality(taken) \in Nat /\ (taken = {} <=> Cardinality(taken) = 0)
  BY <1>1, FS_CardinalityType, FS_EmptySet
<1>3. ASSUME NEW list \in taken PROVE taken = {list} /\ Cardinality(taken) = 1
  <2>1. Cardinality(taken) = 1  BY <1>2, <1>3 DEF TypeOK
  <2>2. \E x : taken = {x}  BY <1>1, <2>1, FS_Singleton
  <2>. QED  BY <1>3, <2>1, <2>2
<1>. QED  BY <1>2, <1>3 DEF TypeOK

LEMMA NoneTaken == Cardinality({}) = 0 /\ \A x : Cardinality({x}) = 1
  BY FS_EmptySet, FS_Singleton

(* Nobody has asked when the client has just registered. *)
LEMMA ListInit == Init => ListTellsTruth
<1>. SUFFICES ASSUME Init PROVE ListTellsTruth
  OBVIOUS
<1>1. TypeOK
  <2>1. online \subseteq Sessions \cup {Me} /\ answers \in Seq(SUBSET (Sessions \cup {Me})) /\ Len(answers) = 0
    BY DEF Init
  <2>2. requests + Cardinality(taken) + Len(answers) <= MaxRequests /\ Cardinality(taken) <= 1
    BY <2>1, NoneTaken, ListAssumption DEF Init
  <2>. QED  BY <2>1, <2>2, ListAssumption DEF Init, TypeOK
<1>. QED  BY <1>1, NoneTaken DEF Init, ListTellsTruth, NewestListIsTrue, NothingBeforeWindow, CounterTellsTruth

(* Every variable keeps its type, and no step puts more on its way than    *)
(* the bound.                                                              *)
LEMMA TypeStep == TypeOK /\ [Next]_vars => TypeOK'
<1>. SUFFICES ASSUME TypeOK, [Next]_vars PROVE TypeOK'
  OBVIOUS
<1>. USE DEF wireVars, windowVars
<1>1. CASE OpenUserListWindow
  BY <1>1, TakenFacts DEF OpenUserListWindow, TypeOK
<1>2. CASE CloseUserListWindow
  BY <1>2 DEF CloseUserListWindow, TypeOK
<1>3. CASE GetUsernames
  <2>1. Cardinality(taken) = 0 /\ Cardinality(taken') = 1
    BY <1>3, NoneTaken DEF GetUsernames
  <2>2. taken' \subseteq SUBSET (Sessions \cup {Me})
    BY <1>3 DEF GetUsernames, TypeOK
  <2>3. requests' \in Nat /\ requests' + Cardinality(taken') + Len(answers') <= MaxRequests
    BY <1>3, <2>1, TakenFacts, ListAssumption DEF GetUsernames, TypeOK
  <2>. QED  BY <1>3, <2>1, <2>2, <2>3 DEF GetUsernames, TypeOK
<1>4. CASE SendMessageToClient
  <2>1. PICK list \in taken : answers' = Append(answers, list)
    BY <1>4 DEF SendMessageToClient
  <2>2. Len(answers') = Len(answers) + 1 /\ Cardinality(taken) = 1 /\ Cardinality(taken') = 0
    BY <1>4, <2>1, TakenFacts, NoneTaken DEF SendMessageToClient, TypeOK
  <2>. QED  BY <1>4, <2>1, <2>2 DEF SendMessageToClient, TypeOK
<1>5. CASE ReceiveUserList
  <2>1. Head(answers) \in SUBSET Users /\ answers' \in Seq(SUBSET Users) /\ Len(answers') = Len(answers) - 1
    BY <1>5 DEF ReceiveUserList, TypeOK, Users
  <2>2. items' \in SUBSET Users /\ hidden' = {} /\ counter' \in Nat
    BY <1>5, <2>1, UsersAreFinite DEF ReceiveUserList, UpdateUserList
  <2>3. requests + Cardinality(taken) + Len(answers') <= MaxRequests
    BY <2>1, TakenFacts, ListAssumption DEF TypeOK
  <2>. QED  BY <1>5, <2>1, <2>2, <2>3 DEF ReceiveUserList, TypeOK, Users
<1>6. ASSUME NEW text \in Texts, TextChanged(text) PROVE TypeOK'
  <2>1. items \cap Matches[text] \in SUBSET Users  BY DEF TypeOK, Users
  <2>. QED  BY <1>6, <2>1, UsersAreFinite DEF TextChanged, TypeOK
<1>7. ASSUME NEW s \in Sessions, OthersChange(s) PROVE TypeOK'
  BY <1>7 DEF OthersChange, TypeOK
<1>8. CASE Disconnected
  <2>1. requests' = 0 /\ taken' = {} /\ answers' = << >> /\ Cardinality(taken') = 0 /\ Len(answers') = 0
    BY <1>8, NoneTaken DEF Disconnected
  <2>2. requests' + Cardinality(taken') + Len(answers') <= MaxRequests
    BY <2>1, ListAssumption
  <2>3. answers' \in Seq(SUBSET (Sessions \cup {Me}))
    BY <2>1
  <2>4. online' \subseteq Sessions \cup {Me} /\ connected' \in BOOLEAN /\ same' \in BOOLEAN
    BY <1>8 DEF Disconnected, TypeOK
  <2>5. taken' \subseteq SUBSET (Sessions \cup {Me}) /\ Cardinality(taken') <= 1 /\ requests' \in Nat
    BY <2>1
  <2>6. UNCHANGED <<window, items, hidden, counter, search>>
    BY <1>8 DEF Disconnected
  <2>. QED  BY <2>2, <2>3, <2>4, <2>5, <2>6 DEF TypeOK
<1>9. CASE DropRequests
  <2>1. requests' \in Nat /\ requests' <= requests
    BY <1>9 DEF DropRequests, TypeOK
  <2>2. requests' + Cardinality(taken) + Len(answers) <= MaxRequests
    BY <2>1, TakenFacts, ListAssumption DEF TypeOK
  <2>. QED  BY <1>9, <2>1, <2>2 DEF DropRequests, TypeOK
<1>10. CASE UNCHANGED vars
  BY <1>10 DEF vars, TypeOK
<1>. QED  BY <1>1, <1>2, <1>3, <1>4, <1>5, <1>6, <1>7, <1>8, <1>9, <1>10 DEF Next

(* Lists are taken, sent and shown in one order, so the newest one stays   *)
(* ahead of those that are older.                                          *)
LEMMA NewestListStep ==
  TypeOK /\ NewestListIsTrue /\ NothingBeforeWindow /\ [Next]_vars => NewestListIsTrue'
<1>. SUFFICES ASSUME TypeOK, NewestListIsTrue, [Next]_vars PROVE NewestListIsTrue'
  OBVIOUS
<1>. USE DEF wireVars, windowVars
<1>1. CASE GetUsernames
  BY <1>1 DEF GetUsernames, NewestListIsTrue
<1>2. CASE SendMessageToClient
  <2>1. PICK list \in taken : answers' = Append(answers, list)
    BY <1>2 DEF SendMessageToClient
  <2>2. taken # {} /\ taken' = {} /\ answers' # << >> /\ answers'[Len(answers')] = list
    BY <1>2, <2>1 DEF SendMessageToClient, TypeOK
  <2>. QED  BY <1>2, <2>2 DEF SendMessageToClient, NewestListIsTrue
<1>3. CASE ReceiveUserList
  <2>1. /\ answers # << >> /\ answers' = Tail(answers) /\ items' = Head(answers)
        /\ UNCHANGED <<online, taken, same>>
    BY <1>3 DEF ReceiveUserList, UpdateUserList
  <2>2. CASE Len(answers) = 1
    BY <2>1, <2>2 DEF NewestListIsTrue, TypeOK
  <2>3. CASE Len(answers) # 1
    <3>1. /\ Len(answers) \in Nat \ {0} /\ Len(answers') = Len(answers) - 1
          /\ \A i \in 1..Len(answers') : answers'[i] = answers[i + 1]
      BY <2>1 DEF TypeOK
    <3>2. answers'[Len(answers')] = answers[Len(answers)] /\ Len(answers') # 0
      BY <2>3, <3>1
    <3>3. answers' # << >>
      BY <3>2
    <3>. QED  BY <2>1, <3>2, <3>3 DEF NewestListIsTrue
  <2>. QED  BY <2>2, <2>3
<1>4. CASE Disconnected
  BY <1>4 DEF Disconnected, NewestListIsTrue
<1>5. ASSUME NEW s \in Sessions, OthersChange(s) PROVE NewestListIsTrue'
  BY <1>5 DEF OthersChange, NewestListIsTrue
<1>6. CASE UNCHANGED <<online, taken, answers, items, same>>
  BY <1>6 DEF NewestListIsTrue
<1>. QED
  BY <1>1, <1>2, <1>3, <1>4, <1>5, <1>6
     DEF Next, vars, OpenUserListWindow, CloseUserListWindow, DropRequests, TextChanged

(* An answer needs a request, and a request an open window. *)
LEMMA WindowStep == TypeOK /\ NothingBeforeWindow /\ [Next]_vars => NothingBeforeWindow'
<1>. SUFFICES ASSUME TypeOK, NothingBeforeWindow, [Next]_vars PROVE NothingBeforeWindow'
  OBVIOUS
<1>. USE DEF wireVars, windowVars, NothingBeforeWindow
<1>1. CASE window # "none"
  BY <1>1 DEF Next, vars, OpenUserListWindow, CloseUserListWindow, DropRequests, GetUsernames, SendMessageToClient,
              ReceiveUserList, TextChanged, OthersChange, Disconnected
<1>2. CASE window = "none"
  BY <1>2 DEF Next, vars, OpenUserListWindow, CloseUserListWindow, DropRequests, GetUsernames, SendMessageToClient,
              ReceiveUserList, TextChanged, OthersChange, Disconnected
<1>. QED  BY <1>1, <1>2

(* Both slots that change what is hidden set the counter to what is left. *)
LEMMA CounterStep == TypeOK /\ CounterTellsTruth /\ [Next]_vars => CounterTellsTruth'
<1>. SUFFICES ASSUME TypeOK, CounterTellsTruth, [Next]_vars PROVE CounterTellsTruth'
  OBVIOUS
<1>. USE DEF wireVars, windowVars
<1>1. CASE ReceiveUserList
  <2>1. items' \ hidden' = Head(answers) /\ hidden' = {} /\ counter' = Cardinality(Head(answers))
    BY <1>1 DEF ReceiveUserList, UpdateUserList
  <2>. QED  BY <2>1 DEF CounterTellsTruth
<1>2. ASSUME NEW text \in Texts, TextChanged(text) PROVE CounterTellsTruth'
  <2>1. items' \ hidden' = items \cap Matches[text] /\ counter' = Cardinality(items \cap Matches[text])
    BY <1>2 DEF TextChanged
  <2>2. hidden' = items' \ Matches[search']
    BY <1>2 DEF TextChanged
  <2>. QED  BY <2>1, <2>2 DEF CounterTellsTruth
<1>3. CASE UNCHANGED windowVars
  BY <1>3 DEF CounterTellsTruth
<1>. QED
  BY <1>1, <1>2, <1>3 DEF Next, vars, OpenUserListWindow, CloseUserListWindow, DropRequests, GetUsernames,
                          SendMessageToClient, OthersChange, Disconnected

(* However requests, answers, comings and goings and edits of the search   *)
(* field cross, the window shows a list that was true at once, the newest  *)
(* one when all has arrived, and its counter counts what is seen.          *)
THEOREM ListIsRight == Spec => []ListTellsTruth
<1>1. ListTellsTruth /\ [Next]_vars => ListTellsTruth'
  BY TypeStep, NewestListStep, WindowStep, CounterStep DEF ListTellsTruth
<1>. QED  BY ListInit, <1>1, PTL DEF Spec
=============================================================================
