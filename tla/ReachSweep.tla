----------------------------- MODULE ReachSweep -----------------------------
(* Bounded reachability (probes/reach.rs, probes/icmp_mask.rs and              *)
(* BoundedReachabilityProvider in providers/network.rs): an ordered list of    *)
(* gateway candidates, asked in waves on tasks that finish in any order; the   *)
(* subnets beside an address that answered make the next wave.  An address is  *)
(* the number of its /24 and the host in it; a /24's third octet is its number *)
(* modulo the octet's size.                                                    *)
EXTENDS Integers, Sequences, SequencesExt, FiniteSets, FiniteSetsExt

CONSTANTS
    Blocks,          \* the private blocks: sequence of [first, size], in /24s
    OCTET,           \* 256: values of an octet
    WINDOW,          \* 8: subnets looked at on each side of an address
    max_candidates,  \* 512: the hard bound on addresses asked
    Vantages,        \* where a run may start from: records as in `vantage`
    Worlds           \* the sets of addresses that may answer

ASSUME ReachAssumption ==
    max_candidates \in Nat \ {0} /\ WINDOW \in Nat /\ OCTET \in Nat \ {0}

VARIABLES
    vantage,    \* [ip, arp, gateway]: its address, the neighbour cache, <<>> or <<the gateway>>
    alive,      \* who would answer a probe
    wave,       \* addresses to ask next
    queued,     \* everything ever scheduled
    flight,     \* probes running
    heard,      \* who answered, in the order their tasks ended
    expanded,   \* how many of them have had their neighbourhood queued
    sweep,      \* [asked, budget_exhausted]
    masks       \* per answer, once the waves are over: whether it stated a prefix

reachVars == <<vantage, alive, wave, queued, flight, heard, expanded, sweep, masks>>

At(net, host) == [net |-> net, host |-> host]

\* Established already, so never asked; the gateway is not among them unless the cache has it.
known == vantage.arp \cup {vantage.ip}

\* What neighbourhoods are seeded from: its own address, the gateway, the rest by address.
AddressLess(a, b) == a.net < b.net \/ (a.net = b.net /\ a.host < b.host)
observed == <<vantage.ip>> \o vantage.gateway \o SetToSortSeq(known \ {vantage.ip}, AddressLess)

\* The block an address is in, as its position in Blocks; 0 for none.
InBlock(b, net) == net >= Blocks[b].first /\ net < Blocks[b].first + Blocks[b].size
enclosing_private_block(net) ==
    LET bs == {b \in DOMAIN Blocks : InBlock(b, net)} IN IF bs = {} THEN 0 ELSE Min(bs)

\* The /24s around a net, in order: the third octet does not wrap and the block is not left.
neighbourhoods(net, block) ==
    SelectSeq([i \in 1..(2 * WINDOW + 1) |-> net - WINDOW - 1 + i],
              LAMBDA n : (net % OCTET) + (n - net) \in 0..(OCTET - 1) /\ InBlock(block, n))

\* The two hosts of each /24 offered, without what is known or listed already, up to the limit.
Offered(nets) == FlattenSeq([i \in DOMAIN nets |-> <<At(nets[i], 1), At(nets[i], 254)>>])
Taken(nets) ==
    LET all  == SelectSeq(Offered(nets), LAMBDA c : c \notin known)
        kept == SelectSeq([i \in DOMAIN all |-> i], LAMBDA i : \A j \in 1..(i - 1) : all[j] # all[i])
    IN  [k \in 1..Min({Len(kept), max_candidates}) |-> all[kept[k]]]

\* candidates_with_coverage: neighbourhoods of what was observed first, then each block that
\* holds an observation, by address, strided so that what is left of the limit spans it.
Near ==
    LET Around(a) == LET b == enclosing_private_block(a.net)
                     IN  IF b = 0 THEN <<>> ELSE neighbourhoods(a.net, b)
    IN  FoldLeft(LAMBDA nets, a : nets \o Around(a), <<>>, observed)
Stride(block, remaining) ==
    LET want == Max({remaining \div 2, 1}) IN Max({Blocks[block].size \div want, 1})
Strided(b, remaining) ==
    LET step == Stride(b, remaining)
    IN  [i \in 1..((Blocks[b].size + step - 1) \div step) |-> Blocks[b].first + (i - 1) * step]
SeenBlocks == {enclosing_private_block(a.net) : a \in ToSet(observed)} \ {0}
candidates ==
    LET near == Taken(Near)
        remaining == max_candidates - Len(near)
        blocks == SetToSortSeq(SeenBlocks, LAMBDA x, y : Blocks[x].first < Blocks[y].first)
    IN  IF remaining = 0 THEN near
        ELSE Taken(Near \o FlattenSeq([i \in DOMAIN blocks |-> Strided(blocks[i], remaining)]))

\* The addresses to add once one answers.
expand_around(a) ==
    LET b == enclosing_private_block(a.net)
        both == IF b = 0 THEN <<>>
                ELSE Offered(neighbourhoods(a.net, b))
    IN  SelectSeq(both, LAMBDA c : c # a)

-----------------------------------------------------------------------------
\* Nothing is asked when the vantage is outside private space or no candidate remains.
ReachInit ==
    /\ vantage \in Vantages /\ alive \in Worlds
    /\ wave = IF enclosing_private_block(vantage.ip.net) = 0 THEN <<>> ELSE candidates
    /\ queued = {wave[i] : i \in DOMAIN wave}
    /\ flight = {} /\ heard = <<>> /\ expanded = 0 /\ masks = <<>>
    /\ sweep = [asked |-> <<>>, budget_exhausted |-> Len(wave) >= max_candidates]

\* One turn of the loop: the wave is drained onto tasks until the budget ends it.
AskWave ==
    /\ flight = {} /\ expanded = Len(heard)
    /\ wave # <<>> /\ Len(sweep.asked) < max_candidates
    /\ LET room == Min({Len(wave), max_candidates - Len(sweep.asked)})
       IN  /\ flight' = {wave[i] : i \in 1..room}
           /\ sweep' = [asked |-> sweep.asked \o SubSeq(wave, 1, room),
                        budget_exhausted |-> sweep.budget_exhausted \/ room < Len(wave)]
    /\ wave' = <<>>
    /\ UNCHANGED <<vantage, alive, queued, heard, expanded, masks>>

\* A task ends: the address answered something, or nothing arrived, or the task was lost.
Join(a) ==
    /\ a \in flight
    /\ flight' = flight \ {a}
    /\ \/ a \in alive /\ heard' = Append(heard, a)
       \/ UNCHANGED heard
    /\ UNCHANGED <<vantage, alive, wave, queued, expanded, sweep, masks>>

\* What of a list was never scheduled and is not known.
Fresh(list) == SelectSeq(list, LAMBDA c : c \notin known \cup queued)

\* Fault: only the last one to answer is expanded.
Answered_last == IF expanded = Len(heard) THEN <<>> ELSE <<heard[Len(heard)]>>

\* Those that answered in this wave, in the order their tasks ended.
Answered == SubSeq(heard, expanded + 1, Len(heard))

\* Every task of the wave has ended: the neighbourhoods of those that answered are queued.
Expand ==
    /\ flight = {} /\ expanded < Len(heard)
    /\ wave' = FoldLeft(LAMBDA l, a : FoldLeft(LAMBDA w, c : IF Contains(w, c) THEN w
                                                             ELSE Append(w, c),
                                               l, Fresh(expand_around(a))),
                        <<>>, Answered)
    /\ queued' = queued \cup ToSet(wave')
    /\ expanded' = Len(heard)
    /\ UNCHANGED <<vantage, alive, flight, heard, sweep, masks>>

Asked == /\ flight = {} /\ expanded = Len(heard)
         /\ wave = <<>> \/ Len(sweep.asked) >= max_candidates

\* The mask of each address that answered: a prefix it states itself, or none.
AskMask ==
    /\ Asked /\ Len(masks) < Len(heard)
    /\ \E stated \in BOOLEAN : masks' = Append(masks, stated)
    /\ UNCHANGED <<vantage, alive, wave, queued, flight, heard, expanded, sweep>>

Finished == Asked /\ Len(masks) = Len(heard)
ReachDone == Finished /\ UNCHANGED reachVars

ReachNext == AskWave \/ (\E a \in flight : Join(a)) \/ Expand \/ AskMask \/ ReachDone

-----------------------------------------------------------------------------
\* No address is asked twice, none that was already known, none outside the private block the
\* vantage or an answer is in, and never more than the budget, whatever order answers arrive in
\* (BoundedReachabilityProvider: "Everything already scheduled, so an expansion never re-asks
\* an address").
AskedOnceInBudget ==
    /\ Len(sweep.asked) <= max_candidates
    /\ \A i \in DOMAIN sweep.asked :
         /\ sweep.asked[i] \notin known /\ enclosing_private_block(sweep.asked[i].net) # 0
         /\ \A j \in 1..(i - 1) : sweep.asked[j] # sweep.asked[i]
    /\ \A i \in DOMAIN heard : Contains(sweep.asked, heard[i])

\* A sweep that ends inside its budget has asked every gateway address beside every address
\* that answered (expand_around: "worth asking about before the far end of the block").
FrontierAsked ==
    Asked /\ masks = <<>> /\ Len(sweep.asked) < max_candidates =>
        LET asked == ToSet(sweep.asked)
        IN  \A i \in DOMAIN heard : ToSet(expand_around(heard[i])) \subseteq asked \cup known

\* The sweep asks what it should and no more: nothing twice or past the budget, and every address
\* next to an answer before it stops (the two budgets and the frontier of the sweep).
AskedAsPlanned == AskedOnceInBudget /\ FrontierAsked
=============================================================================
