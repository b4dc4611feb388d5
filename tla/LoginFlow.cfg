\* Two clients and the server; the test user and two more names, two passwords.
CONSTANTS
  Names = {danya, vera, zoe}
  Passwords = {p123, secret}
  NoPassword = NoPassword
  TestUser = danya
  TestPassword = p123
  MaxErrors = 1
  Clients = {c1, c2}
  Server = server
  NoText = NoText
SYMMETRY Symmetry
SPECIFICATION Spec
INVARIANTS
  LoginInv
  RegistrationsStand
  LoginIsSound
  WindowFollows
  TestUserFirst
PROPERTIES
  ImplementsTable
