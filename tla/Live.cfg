SPECIFICATION FairSpec
CONSTANTS
  list = list ann = ann bob = bob latest = latest account = account price = price issue = issue user = user stock = stock setting = setting author = author reviewer = reviewer board = board
  people = people top = top profile = profile ticker = ticker peek = peek glance = glance quote = quote s1 = s1 s2 = s2 engine = engine none = none
  Instances = {s1, s2}
  Changes <- MCChanges
  Clients = {engine}
  Nowhere = none
  Homes <- MCHomes
  Plans <- MCPlans
  Resources <- MCResources
  ResourceOf <- MCResourceOf
  Shape <- MCShape
  ModeOf <- MCModeOf
  Vacant <- MCVacant
  Specs <- MCSpecs
  ChildPlan <- MCChildPlan
  NoPlan = none
  TargetOf <- MCTargetOf
  Views <- MCViews
  Queries <- MCQueries
  PlanOf <- MCPlanOf
  Includes <- MCIncludes
  Bundles <- MCBundles
  Me = engine
  Layers <- MCLayers
  Overlaid <- MCOverlaid
  Scenes <- MCScenes
  MaxWrites = 2
INVARIANTS LiveTypeOK RefsExact OneRefresh ShownIsCurrent FreshAtRest PreloadedIsLocal
PROPERTIES KeepsBroadcast Settles
CHECK_DEADLOCK FALSE
