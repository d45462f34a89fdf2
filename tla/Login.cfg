\* Two sessions, two accounts, two puppets; every effect may fail.
CONSTANTS
  Sids = {s1, s2}
  Usernames = {alice, bob}
  Passwords = {pw1, pw2}
  Names = {hero}
  NoOne = noone
  MaxPuppets = 2
SPECIFICATION FairSpec
INVARIANTS
  LoginInv
  ActsForItsAccount
  SecretsMasked
PROPERTY
  LinesEnd
