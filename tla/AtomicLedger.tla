---------------------------- MODULE AtomicLedger ----------------------------
(* What State.ApplyBlock (pkg/state/state.go) promises: a block is applied   *)
(* as a whole or not at all.  One step executes all its transactions on the  *)
(* stored accounts, slides the timestamp window and commits; previews,       *)
(* passes, batches and the contract engine are out of sight.                 *)
EXTENDS Transactions

CONSTANTS
  TxLists,         \* the transaction lists of the blocks that arrive
  Times,           \* their timestamps
  GenesisTime, MaxSkewSec, WindowN

VARIABLES
  accounts,        \* the stored accounts
  lastTimestamps,  \* the stored timestamp window
  chain            \* the committed blocks

stored == << accounts, lastTimestamps, chain >>

\* A block takes effect and is the new end of the chain.
Commit ==
  /\ Len(chain') = Len(chain) + 1
  /\ LET block == chain'[Len(chain')]
         now == EffectiveTime(block.timestamp, lastTimestamps, MaxSkewSec)
     IN  /\ block.txs \in TxLists /\ block.timestamp \in Times
         /\ chain' = Append(chain, block)
         /\ accounts' \in ExecuteAll(accounts, block.txs, now, FALSE, {})
         /\ lastTimestamps' = Slide(lastTimestamps, block.timestamp, WindowN)

\* Node.Start writes the genesis accounts again.
Restart ==
  /\ accounts' = ApplyGenesis(accounts)
  /\ UNCHANGED << lastTimestamps, chain >>

Init ==
  /\ accounts = FreshAccounts
  /\ lastTimestamps = << GenesisTime >>
  /\ chain = << >>

Next == Commit \/ Restart

Spec == Init /\ [][Next]_stored

=============================================================================
