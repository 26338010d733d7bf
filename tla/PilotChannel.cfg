SPECIFICATION Spec
CONSTANTS
  Offered = {"order_status"}
  Reasons = {"customer_requests_human"}
  Lookups = {"lookup_order"}
  Headings = {}
  Notes = {{}}
  MaxEvents = 3
  MaxWaiting = 2
INVARIANTS
  ChannelErrorIsSeen
CHECK_DEADLOCK FALSE
