\* The same parties: a row outlives the deletion of its provider.
CONSTANTS
  f1 = f1  f2 = f2  d1 = d1  d2 = d2  e1 = e1  s1 = s1  s2 = s2
  Flow <- OneFlow
  Delivery <- TwoDeliveries
  Editor <- OneEditor
  Saver <- TwoSavers
  Remover = Remover
  MaxProvider = 2
SPECIFICATION Spec
INVARIANT NoOrphans
