\* Two notifications pushed four times in all (each can be pushed twice, in
\* any version), every search term kind (empty, one word, two words, trailing space, quoted, lone quote),
\* timestamps on days 1 and 2 and a clock that starts on any day 1..3 and
\* advances to day 3, so that an entry is today's, yesterday's, older, or
\* dated after the clock; a page of one entry, so that a bucket fills.
CONSTANTS
  x1 = x1  x2 = x2  f1 = f1  f2 = f2
  NoAction = NoAction
  Pushes <- MC_Pushes
  SignRequests <- MC_SignRequests
  Terms <- MC_Terms
  Labels <- MC_Labels
  NameOf <- MC_NameOf
  MaxPushes = 4
  MaxMarkAll = 1
  PageEnd = 1
  MaxDay = 3
SPECIFICATION Spec
INVARIANT SearchUnionOnce UniqueSigningRequests BucketsPartition
\* The push bound ends the events; the user can always retype the term.
