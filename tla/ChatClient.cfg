\* Three edits, three displayed messages and the notice, two clicks on the user list.
CONSTANTS
  MaxTexts = 3
  MaxMessages = 3
  MaxRequests = 4
SPECIFICATION Spec
INVARIANTS
  TextsSentOrShown
  LabelTellsTruth
  NoticeEndsHistory
  LogoutEndsConnection
  ClientInv
