SPECIFICATION FairSpec
CONSTANTS
  a1 = a1 p1 = p1 r1 = r1 r2 = r2 t1 = t1 t2 = t2 t3 = t3
  Ids = {a1}
  Proposals = {p1}
  Requests = {r1, r2}
  Texts = {t1, t2, t3}
  Drafts <- TwoDrafts
  Edits <- Body
  NoArticle = NoArticle
  NoProposal = NoProposal
  NoRequest = NoRequest
  MaxVersion = 2
INVARIANTS HistoryComplete AcceptedIsTheRevision
PROPERTIES PublishedAsReviewed HistoryPromise RequestsEnd
