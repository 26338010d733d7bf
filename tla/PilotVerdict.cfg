SPECIFICATION Spec
CONSTANTS
  Offered = {"order_status", "knowledge_low_confidence_handoff"}
  Reasons = {"none", "customer_requests_human"}
  Lookups = {"lookup_order", "query_product_knowledge"}
  Headings = {"lookup_order", "blocked"}
  Notes = {{"blocked"}}
  MaxEvents = 3
  MaxWaiting = 2
INVARIANTS
  TypeOK
  ReadyMeansDemonstrated
  BlockedMeansProviderError
  ReportSupportsVerdict
CHECK_DEADLOCK FALSE
