\* Two scripts with a VTXO each; two transactions or calls, or one of
\* them and a failure.
SPECIFICATION MCSpec
CONSTANTS
  m = m  o = o  v1 = v1  v2 = v2  i1 = i1  i2 = i2  i3 = i3  i4 = i4
  Scripts = {m, o}
  Vtxos = {v1, v2}
  Of <- OfEach
  Mine = m
  WalletScripts = {}
  Expiring = {o}
  Ids = {i1, i2, i3, i4}
  MaxHappens = 2
  MaxLost = 1
INVARIANTS CursorCovers
PROPERTIES NotifiedIsCached WatcherAgrees ListensAgain
CHECK_DEADLOCK FALSE
