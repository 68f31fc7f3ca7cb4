CONSTANTS
  MAX_REQUESTS = 3
  Request = {r1, r2}
  Zero = zero
SPECIFICATION Spec
INVARIANT CursorsAgree
PROPERTY QueueSpec
