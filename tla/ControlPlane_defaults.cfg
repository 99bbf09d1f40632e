SPECIFICATION Spec
CONSTANTS
  u1 = u1
  u2 = u2
  l1 = l1
  l2 = l2
  s1 = s1
  s2 = s2
  a1 = a1
  a2 = a2
  a3 = a3
  web = web
  pw1 = pw1
  pw2 = pw2
  usr = usr
  c1 = c1
  c2 = c2
  None = None
  Malformed = Malformed
  NoFile = NoFile
  NoRequest = NoRequest
  Nobody = Nobody
  UpstreamIds = {u1, u2}
  ListenerIds = {l1, l2}
  Servers = {s1, s2}
  Addresses = {a1, a2, a3, web}
  Users = {usr}
  Secrets = {pw1, pw2}
  Protocols = {"http", "socks5"}
  Clients = {c1, c2}
  Requests <- MoveRequests
  DefaultListeners <- OneDefault
  InitialFiles <- FirstStarts
  Clash <- MCClash
  WebAddr = web
  ForeignAddrs = {a2}
SYMMETRY Clients2
PROPERTIES
  DefaultsOnlyForOldFiles
