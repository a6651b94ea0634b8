\* Invoices issued before, between and after the pages, dated or not.
SPECIFICATION Spec
CONSTANTS
  MaxInvoices = 5
  MaxTime = 4
  PerPage = 2
  Lookback = {2}
  MinFrom = 1
  MinInterval = 2
INVARIANTS TypeOK LostOnlyPastLastPage
PROPERTIES ListingIsAtomic
