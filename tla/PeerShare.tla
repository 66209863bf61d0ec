------------------------------ MODULE PeerShare ------------------------------
(* What a capture learned, published to a peer (EvidenceBundle::publish,       *)
(* check_message and the conversion in PeerLedger::prepare): the records are   *)
(* written in the wire vocabulary, bounded on arrival and read back, all of    *)
(* them or none.                                                               *)
EXTENDS PassiveCapture, WireVocabulary

CONSTANTS
    MAX_RECORDS,   \* records one bundle may hold
    Lengths        \* "short", or the name of a field that is too long to be accepted

VARIABLES
    bundle,        \* the records published, None before
    received       \* what the peer made of them: None, Refused or a set of evidence

shareVars == <<bundle, received>>

\* Evidence as the engine keeps it: seen from an interface at a time, with a reason.
Stamped(e) == [fact |-> e.fact, source |-> e.source, confidence |-> e.confidence,
            vantage |-> "if0", observed_at |-> 3, detail |-> "text"]

ShareInit == CaptureInit /\ bundle = None /\ received = None

\* The whole of what was learned is written as one bundle.
publish ==
    /\ engine = "finished" /\ evidence # {} /\ bundle = None
    /\ \E long \in Lengths :
         bundle' = [vantage |-> IF long = "bundle vantage" THEN "long" ELSE "short",
                    records |-> {from_evidence(Stamped(e)) : e \in evidence}, long |-> long]
    /\ UNCHANGED <<captureVars, received>>

\* What is checked of the bundle: the named field is the long one wherever it occurs.
Bounded(b) ==
    [vantage |-> b.vantage,
     records |-> {[kind |-> w.fact.kind, of |-> w, long |-> b.long] : w \in b.records}]

\* Read back by the peer: refused for its size, or for one record that cannot be read.
prepare_records ==
    /\ bundle # None /\ received = None
    /\ LET read == {to_evidence(w) : w \in bundle.records}
       IN  received' = IF ~check_message(Bounded(bundle), MAX_RECORDS) \/ Refused \in read THEN Refused
                       ELSE read
    /\ UNCHANGED <<captureVars, bundle>>

ShareNext == (CaptureNext /\ UNCHANGED shareVars) \/ publish \/ prepare_records
ShareSpec == ShareInit /\ [][ShareNext]_<<captureVars, shareVars>>
             /\ WF_captureVars(ReaderStep /\ UNCHANGED shareVars)
             /\ WF_captureVars(Join /\ UNCHANGED shareVars)
             /\ WF_captureVars(FinalDrain /\ UNCHANGED shareVars)

-----------------------------------------------------------------------------
\* The label link_layer_evidence gives a bridge, which role_signal_from_wire does not know: a
\* bundle that holds one is refused whole.
Unread(e) == e.fact.kind = "DeviceRoleSignal" /\ e.fact.fields.signal = LinkLayerCapability("Bridge/Switch")

\* A bundle a peer takes says there exactly what was observed here, record for record, with the
\* seconds of its time and nothing else gone: the same facts about the same devices and labels,
\* and no text in it longer than was checked, whichever field of whichever fact carries it.
\* It is taken unless it is too large or holds a label that is not read back
\* (PeerLedger::prepare: "All or nothing"; check_message: "Every string in every fact is
\* checked, not a chosen few"; the test every_fact_kind_round_trips).
TakenAsObserved ==
    /\ received \notin {None, Refused} =>
         /\ received = {[Stamped(e) EXCEPT !.observed_at = 2] : e \in evidence}
         /\ \A w \in bundle.records : \A f \in DOMAIN w.fact.fields :
              w.fact.fields[f] # None /\ Fields[w.fact.kind][f] # "number" => bundle.long # f
    /\ received = Refused =>
         \/ bundle.long # "short" \/ Cardinality(bundle.records) > MAX_RECORDS
         \/ \E e \in evidence : Unread(e)
=============================================================================
