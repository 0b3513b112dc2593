\* One consent whose callback is delivered twice, one goroutine that saves app configs,
\* two that save the provider, and its deletion.
CONSTANTS
  f1 = f1  f2 = f2  d1 = d1  d2 = d2  e1 = e1  s1 = s1  s2 = s2
  Flow <- OneFlow
  Delivery <- TwoDeliveries
  Editor <- OneEditor
  Saver <- TwoSavers
  Remover = Remover
  MaxProvider = 2
SPECIFICATION Spec
INVARIANTS TypeOK CodeSentOnce
PROPERTIES StableProviderId StartsClean DeletionIsAtomic CallbacksFinish
