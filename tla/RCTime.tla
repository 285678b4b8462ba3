------------------------------- MODULE RCTime -------------------------------
(* The clock of the resource-credit system (pkg/rc/rc.go): the median of the *)
(* last block timestamps and the clamp of a block's timestamp around it.     *)
EXTENDS Integers, Sequences, FiniteSets

LOCAL Values(ts) == { ts[i] : i \in DOMAIN ts }

\* rc.Median: the middle element of the sorted timestamps, the lower of the
\* two middle ones when their number is even, 0 when there is none.  As an
\* order statistic: at least half of the elements are <= the median and fewer
\* than half are below it.
Median(ts) ==
  IF ts = << >> THEN 0
  ELSE CHOOSE v \in Values(ts) :
         /\ 2 * Cardinality({ i \in DOMAIN ts : ts[i] <= v }) >= Len(ts)
         /\ 2 * Cardinality({ i \in DOMAIN ts : ts[i] < v }) < Len(ts)

\* rc.EffectiveTime: the timestamp, clamped to maxSkew around the median.  The sum
\* and the difference are int64s in the code; times and skew are taken to be so far
\* from their limits that neither wraps.
EffectiveTime(timestamp, last, maxSkew) ==
  IF last = << >> THEN timestamp
  ELSE LET low  == Median(last) - maxSkew
           high == Median(last) + maxSkew
       IN  IF timestamp < low THEN low
           ELSE IF timestamp > high THEN high
           ELSE timestamp

\* Mutant: the length is tested before the append.
SlideLate(last, timestamp, windowN) ==
  LET longer == Append(last, timestamp)
  IN  IF Len(last) > windowN
        THEN SubSeq(longer, Len(longer) - windowN + 1, Len(longer))
        ELSE longer

\* State.ApplyBlock's window update: append the RAW timestamp of the block and
\* keep the last windowN entries.
Slide(last, timestamp, windowN) ==
  LET longer == Append(last, timestamp)
  IN  IF Len(longer) > windowN
        THEN SubSeq(longer, Len(longer) - windowN + 1, Len(longer))
        ELSE longer

=============================================================================
