------------------------------ MODULE CatchUp ------------------------------
(***************************************************************************)
(* The catch-up sync task of a node (run_catch_up_sync_task,               *)
(* catchup_sync_from_peer, prioritize_catchup_peers in                     *)
(* zhtp/src/runtime/components/consensus.rs) over the node's ledger.       *)
(*                                                                         *)
(* A round asks peers one after another until one of them yields blocks.   *)
(* The height it starts from is read once per round, the published height  *)
(* of consensus before the proof of each block is fetched, and the chain's *)
(* own height again under the write lock, so consensus may commit in       *)
(* between.  Three rounds in a row in which a peer's first block does not  *)
(* link to our tip end the task for good.                                  *)
(***************************************************************************)
EXTENDS Ledger

CONSTANTS
    Peers,           \* connected nodes
    ValidatorPeers,  \* those that run an active validator: asked first
    PeerChain,       \* the chain each of them serves, genesis first
    PeerProofs,      \* the heights for which it serves a verifying proof
    PageSize,        \* MAX_BLOCKS_PER_PAGE
    WrongChainLimit  \* WRONG_CHAIN_WIPE_THRESHOLD

\* A peer serves the blocks of its own store, each linked to the one before it.
ASSUME PeersAssumption ==
    /\ PeerChain \in [Peers -> Seq(Hashes)]
    /\ \A p \in Peers : \A i \in 1 .. Len(PeerChain[p]) :
         LET b == BlockOf(PeerChain[p][i])
         IN  b.height = i - 1 /\ (i > 1 => b.prev = PeerChain[p][i - 1])
    /\ PageSize \in Nat /\ WrongChainLimit \in Nat

VARIABLES
    sync,            \* the task: its round and the peer being asked
    wrongRounds      \* consecutive_wrong_chain_rounds

syncVars == <<sync, wrongRounds>>

vars == <<db, tx_active, mem, job, reply, owed, faults, refilled,
          sync, wrongRounds>>

Resting == [phase |-> "rest"]

Halted(peers) == [phase |-> "halted", rejecting |-> peers]

\* What a process starts with; a crash ends the task.
FreshTask == sync' = Resting /\ wrongRounds' = 0

Init ==
    /\ LedgerInit
    /\ sync = Resting /\ wrongRounds = 0

\* bft_active_height as the task may read it: 0 in bootstrap mode, else a
\* height the consensus loop published when it began to work on it.
Published == {0} \cup 1 .. Height(mem) + 1

\* A trigger is received outside the cooldown and opens a round.  A trigger
\* during the cooldown or while another one is waiting changes nothing, and a
\* peer that is not connected is one that will not be reached.
StartRound ==
    /\ sync = Resting
    /\ job = Idle
    /\ sync' = [phase |-> "ask", from |-> Height(mem), peers |-> Peers,
                rejecting |-> {}, synced |-> 0]
    /\ UNCHANGED <<ledgerVars, wrongRounds>>

\* The round as it stands once a peer has answered and the next may be asked.
NextPeer(s) == [phase |-> "ask", from |-> s.from, peers |-> s.peers \ {s.peer},
                rejecting |-> s.rejecting, synced |-> s.applied]

\* The next peer, validators first.  It cannot be reached, is not ahead, or
\* serves its blocks a page at a time.
AskPeer(p, reached) ==
    /\ sync.phase = "ask" /\ sync.synced = 0
    /\ p \in sync.peers
    /\ sync.peers \cap ValidatorPeers # {} => p \in ValidatorPeers
    /\ LET tip == Len(PeerChain[p]) - 1
       IN  sync' = IF reached /\ tip > sync.from
                   THEN [phase |-> "page", from |-> sync.from, peers |-> sync.peers,
                         rejecting |-> sync.rejecting, peer |-> p, tip |-> tip,
                         start |-> sync.from + 1, next |-> sync.from + 1,
                         inPage |-> 0, applied |-> 0, proof |-> FALSE]
                   ELSE [sync EXCEPT !.peers = @ \ {p}]
    /\ UNCHANGED <<ledgerVars, wrongRounds>>

\* Fault: a page that brought nothing is asked for again.
page_end_retrying(s) ==
    IF Height(mem) >= s.tip THEN NextPeer(s)
    ELSE [s EXCEPT !.phase = "page", !.inPage = 0,
                   !.start = Height(mem) + 1, !.next = Height(mem) + 1]

\* The end of a page: go on after our tip if the page brought anything.
PageEnd(s) ==
    IF s.inPage = 0 \/ Height(mem) < s.start \/ Height(mem) >= s.tip
    THEN NextPeer(s)
    ELSE [s EXCEPT !.phase = "page", !.inPage = 0,
                   !.start = Height(mem) + 1, !.next = Height(mem) + 1]

PageDone(s) == s.next > s.tip \/ s.next >= s.start + PageSize

\* The request for a page fails: an error, whatever the peer has yielded before.
PageLost ==
    /\ sync.phase = "page" /\ sync.next = sync.start
    /\ sync' = NextPeer([sync EXCEPT !.applied = 0])
    /\ UNCHANGED <<ledgerVars, wrongRounds>>

\* Before the lock: in the zone consensus works in, a block needs a proof.
FetchProof(bft, answered) ==
    /\ sync.phase = "page"
    /\ LET inZone   == bft > 0 /\ sync.next >= bft
           verified == answered /\ sync.next \in PeerProofs[sync.peer]
       IN  sync' = IF PageDone(sync) \/ (inZone /\ ~ verified)
                   THEN PageEnd(sync)
                   ELSE [sync EXCEPT !.phase = "apply", !.proof = inZone]
    /\ UNCHANGED <<ledgerVars, wrongRounds>>

\* Under the lock: skip what we have, else apply_block_trusted_for_sync.
ApplyForSync ==
    /\ sync.phase = "apply" /\ job = Idle
    /\ IF sync.next <= Height(mem)
       THEN /\ sync' = [sync EXCEPT !.phase = "page", !.next = @ + 1]
            /\ UNCHANGED ledgerVars
       ELSE /\ ProcessBlock(BlockOf(PeerChain[sync.peer][sync.next + 1]), "sync", sync.proof)
            /\ sync' = [sync EXCEPT !.phase = "wait"]
    /\ UNCHANGED wrongRounds

Applied ==
    /\ sync.phase = "wait" /\ reply # "none"
    /\ reply' = "none"
    /\ sync' = IF reply = "ok"
               THEN [sync EXCEPT !.phase = "page", !.next = @ + 1,
                                 !.inPage = @ + 1, !.applied = @ + 1]
               ELSE IF sync.applied > 0 THEN PageEnd(sync)
               ELSE NextPeer([sync EXCEPT !.rejecting =
                                @ \cup (IF reply = "mismatch" THEN {sync.peer} ELSE {})])
    /\ UNCHANGED <<db, tx_active, mem, job, owed, faults, refilled>>
    /\ UNCHANGED wrongRounds

\* The round is over: count it if a peer ahead of us rejected our chain and no
\* block was applied.  At the limit the loop is left.
EndRound ==
    /\ sync.phase = "ask" /\ (sync.synced > 0 \/ sync.peers = {})
    /\ LET wrong == sync.synced = 0 /\ sync.rejecting # {} /\ sync.from > 0
       IN  /\ wrongRounds' = IF wrong THEN wrongRounds + 1 ELSE 0
           /\ sync' = IF wrong /\ wrongRounds + 1 >= WrongChainLimit
                      THEN Halted(sync.rejecting) ELSE Resting
    /\ UNCHANGED ledgerVars

Syncing ==
    \/ \E bft \in Published : FetchProof(bft, TRUE)
    \/ \E p \in Peers : AskPeer(p, TRUE)
    \/ ApplyForSync \/ Applied \/ EndRound

Losing ==
    \/ \E p \in Peers : AskPeer(p, FALSE)
    \/ PageLost
    \/ \E bft \in Published : FetchProof(bft, FALSE)

Next ==
    \/ (Processing \/ Failing \/ Finalizing \/ StoringProofs \/ Registering) /\ UNCHANGED syncVars
    \/ Crash /\ FreshTask
    \/ Restart /\ UNCHANGED syncVars
    \/ Syncing \/ Losing
    \/ StartRound

Spec == Init /\ [][Next]_vars

\* The task can take a step: what it waits for, a lock or an answer, is there.
TaskReady ==
    \/ sync.phase \in {"ask", "page"}
    \/ sync.phase \in {"rest", "apply"} /\ job = Idle
    \/ sync.phase = "wait" /\ reply # "none"

\* The runtime finishes a block it has begun and polls the task, and while the
\* node is behind its liveness monitor triggers rounds again and again: weak
\* fairness, written out.  A validator asked over and over answers over and over.
FairSpec ==
    /\ Spec
    /\ []<>(job \in {Idle, Down}) \/ []<><<job' # job>>_vars
    /\ []<>(~ TaskReady) \/ []<><<sync' # sync>>_vars
    /\ \A p \in ValidatorPeers :
         /\ SF_vars(AskPeer(p, TRUE))
         /\ SF_vars(sync.phase = "page" /\ sync.peer = p
                      /\ \E bft \in Published : FetchProof(bft, TRUE))

(***************************************************************************)
(* Properties                                                              *)
(***************************************************************************)

\* See AppendOnlyStep: no step of the node or of the task replaces a block of
\* the stored chain.
AppendOnly == [][AppendOnlyStep]_vars

\* See WedgedUntilRestartStep: a slot that post-processing left held blocks
\* consensus and catch-up alike until the process ends.
WedgedUntilRestart == [][WedgedUntilRestartStep]_vars

\* The task gives up only if its verdict is right: every peer that rejected us
\* in the last round holds, at a height we both have, a block other than ours,
\* which stays so because our blocks are never replaced.
HaltIsDivergence ==
    sync.phase = "halted" =>
        \A p \in sync.rejecting : \E h \in 0 .. db.latest :
            h < Len(PeerChain[p]) /\ PeerChain[p][h + 1] # db.blocks_by_height[h]

\* p has more blocks than we have, and they continue our chain.
Extends(p) == Height(mem) < Len(PeerChain[p]) - 1 /\ IsPrefix(mem.chain, PeerChain[p])

\* Whatever is lost on the way, a running node does not stay behind a validator
\* that continues its chain, unless the task has halted or a write has failed
\* that blocks are executed or memory is updated from.
CatchesUp ==
    []<>(\/ ~ Up \/ sync.phase = "halted"
         \/ faults \cap {"commit", "flush", "postprocess"} # {}
         \/ \A p \in ValidatorPeers : ~ Extends(p))
=============================================================================
