\* Two boarding outputs, one below dust; two VTXOs; one failing request.
SPECIFICATION MCSpec
CONSTANTS
  u1 = u1  u2 = u2  v1 = v1  v2 = v2
  Utxos = {u1, u2}
  Small = {u2}
  Vtxos = {v1, v2}
  MaxFails = 1
  MaxHappens = 3
PROPERTIES QuietAfterDispose RenewalsRest BoardingHandled
CHECK_DEADLOCK FALSE
