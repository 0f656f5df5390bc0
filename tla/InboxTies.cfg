SPECIFICATION InboxSpec
CONSTANTS
  Shelves = {s1}
  Labels = {k1}
  NoLabel = NoLabel
  Queue = Queue
  Mails = {m1, m2}
  Nowhere = Nowhere
  Moments = {1}
  PageLimit = 1
INVARIANT NothingSkipped
