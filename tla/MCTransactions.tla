--------------------------- MODULE MCTransactions ---------------------------
(***************************************************************************)
(* Instances of TransactionsCrawler.  Packet p is sent by block `s` and    *)
(* answered with `status` in block `a`; a relayer's late timeout for it is *)
(* rejected by the chain in block `f`; packet q is received in block `r`.  *)
(* A height above the chain's means that it does not happen.  The wasm     *)
(* code changes with every epoch.                                          *)
(***************************************************************************)
EXTENDS TransactionsCrawler, TLC

CONSTANTS p, q, atom, osmo

MCTokenOf == (p :> atom) @@ (q :> osmo)

CONSTANT EpochOf    \* the epoch of each height

In(h, at, x) == IF h = at THEN {x} ELSE {}

MCRelays(h, a, status, f) ==
    (IF h = a THEN <<[packet |-> p, status |-> status, applied |-> TRUE]>> ELSE <<>>)
    \o
    (IF h = f THEN <<[packet |-> p, status |-> "timeout", applied |-> FALSE]>> ELSE <<>>)

MCChain(s, a, status, f, r) ==
    [h \in Heights |->
        [epoch |-> EpochOf[h],
         sent |-> In(h, s, p),
         received |-> In(h, r, q),
         acked |-> IF status = "success" THEN In(h, a, p) ELSE {},
         relays |-> MCRelays(h, a, status, f)]]

CONSTANTS Sends, Answers, Statuses, Fails, Receives

MCChains ==
    {MCChain(x[1], x[2], x[3], x[4], x[5]) :
        x \in {y \in Sends \X Answers \X Statuses \X Fails \X Receives :
                  y[1] < y[2] /\ y[1] <= y[4]}}

\* Epochs and versions of the instances.
TwoEpochs == <<1, 2, 2>>
EachItsCode == [e \in Epochs |-> e]
=============================================================================
