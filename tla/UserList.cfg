\* Two other users, three search texts, four requests on their way.
CONSTANTS
  s1 = s1
  s2 = s2
  me = me
  A = A
  B = B
  NoText = NoText
  Sessions = {s1, s2}
  Me = me
  Texts = {NoText, A, B}
  Matches <- SomeMatches
  MaxRequests = 4
SPECIFICATION Spec
INVARIANTS
  ListTellsTruth
