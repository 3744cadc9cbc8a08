SPECIFICATION Spec
CONSTANTS
  Worker = {w1, w2}
  Absent = Absent
  NoRequest = NoRequest
  SeedRole = "admin"
  MaxPictures = 3
INVARIANT
  PostsEncrypted
