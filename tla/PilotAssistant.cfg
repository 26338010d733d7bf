SPECIFICATION Spec
CONSTANTS
  Offered = {"order_status"}
  Reasons = {"customer_requests_human"}
  Lookups = {"lookup_order"}
  Headings = {}
  Notes = {{}}
  MaxEvents = 3
  MaxWaiting = 2
INVARIANTS
  AssistantIsRequired
CHECK_DEADLOCK FALSE
