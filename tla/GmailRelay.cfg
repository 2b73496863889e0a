CONSTANTS
  Tab = {t1, t2}
  Fragment = {f1, f2}
  AppUrl <- MCAppUrl
  Unparsable = {relative}
  Relative = relative
  V6 = v6
  OtherV6 = otherv6
  Loopback6 = v6
  ThisMachine <- MCThisMachine
  CallbackPath = callback
  Root = root
  Ignored = ignored
  MaxDeploys = 1
  None = None
SPECIFICATION Spec
SYMMETRY Symmetry
INVARIANTS FragmentIntact OnlyToTheApp NeverStale HandedOnce
