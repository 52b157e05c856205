SPECIFICATION ReportSpec
CONSTANTS
  Shop = u1
  Accounts = {u1, u2, u3}
  Listings = {p1}
  Seller <- MCSeller
  Reviews = {r1}
  MaxReports = 2
  Requests = {q1, q2}
  MaxOpen = 1
  Deals <- MCDeals
  NoAccount = NoAccount
  NoReview = NoReview
  NoReport = NoReport
  NoSubject = NoSubject
SYMMETRY Symmetry
CHECK_DEADLOCK FALSE
INVARIANTS
  ReportTypeOK
  ReviewEarned
  ReporterTold
PROPERTIES
  RulingStands
