------------------------------- MODULE MCSnmp -------------------------------
(* A small agent for the SNMP client: two neighbours, one route in use and one *)
(* struck out, one address, and three inetCidr indexes of which one is not     *)
(* well formed; an SNMPv3 engine that restarts; and what the encoder writes at *)
(* the edges of its forms.  A behaviour is one of the three.                   *)
EXTENDS SnmpEvidence, UsmEngine, SnmpV3Codec

VARIABLE mode

ip(a) == [kind |-> "ip", v |-> a]
int(n) == [kind |-> "int", v |-> n]
hw(n) == [kind |-> "mac", v |-> [id |-> n, upper |-> FALSE]]

\* ipv4 10/8 through 10.0.0.1, and the same with a destination length of three.
Index4 == <<1, 4, 10, 0, 0, 0, 8, 1, 0, 1, 4, 10, 0, 0, 1>>
IndexBad == <<1, 3, 10, 0, 0, 8, 1, 0, 1, 4, 10, 0, 0, 1>>

At(table, column, key, value) == << <<table, column>> \o key, value>>

MCDevice ==
    << <<<<1>>, [kind |-> "text", v |-> "d"]>>, <<<<3>>, int(1)>>,
       At(20, 1, <<1>>, ip(<<10, 1, 0, 2>>)), At(20, 3, <<1>>, ip(<<255, 255, 255, 0>>)),
       At(21, 1, <<1>>, ip(<<10, 2, 0, 0>>)), At(21, 1, <<2>>, ip(<<10, 3, 0, 0>>)),
       At(21, 7, <<1>>, ip(<<10, 1, 0, 1>>)), At(21, 7, <<2>>, ip(<<10, 1, 0, 1>>)),
       At(21, 8, <<1>>, int(4)), At(21, 8, <<2>>, int(2)),
       At(21, 11, <<1>>, ip(<<255, 255, 255, 0>>)), At(21, 11, <<2>>, ip(<<255, 255, 255, 0>>)),
       At(22, 2, <<1>>, hw(1)), At(22, 3, <<1>>, ip(<<10, 1, 0, 1>>)),
       At(24, 8, Index4, int(4)), At(24, 17, IndexBad, int(1)), At(24, 17, Index4, int(2)) >>

\* A default route, in force.
IndexDefault == <<1, 4, 0, 0, 0, 0, 0, 1, 0, 1, 4, 10, 0, 0, 1>>

\* A device with all four tables; one with a mask that is no prefix, a direct route, a
\* neighbour without an address of its own and an unreadable type; and one with a name
\* whose only route is the default one.
MCMibs ==
    {MCDevice,
     << <<<<1>>, [kind |-> "text", v |-> "d"]>>,
        At(20, 1, <<1>>, ip(<<10, 4, 0, 1>>)), At(20, 3, <<1>>, ip(<<255, 0, 255, 0>>)),
        At(21, 1, <<1>>, ip(<<10, 5, 0, 0>>)), At(21, 7, <<1>>, ip(<<0, 0, 0, 0>>)),
        At(21, 8, <<1>>, int(3)), At(21, 11, <<1>>, ip(<<255, 255, 0, 0>>)),
        At(22, 2, <<1>>, hw(0)), At(22, 3, <<1>>, ip(<<10, 1, 0, 1>>)),
        At(24, 8, Index4, int(9)), At(24, 17, Index4, int(1)) >>,
     << <<<<1>>, [kind |-> "text", v |-> "d"]>>, <<<<2>>, [kind |-> "text", v |-> "n"]>>, <<<<3>>, int(2)>>,
        At(24, 8, IndexDefault, int(4)), At(24, 17, IndexDefault, int(1)) >>}

-----------------------------------------------------------------------------
mcMessage(level, id, boots, user, privacy, scoped) ==
    [what |-> "message",
     args |-> [message_id |-> 300, level |-> level, reportable |-> TRUE, engine_id |-> id,
               boots |-> boots, time |-> 128, user_name |-> user, authentication |-> 0,
               privacy |-> privacy, scoped_pdu |-> scoped]]
mcSamples ==
    {[what |-> "length", n |-> n] : n \in {0, 1, 127, 128, 129, 255, 256, 300, 65535, 65536, 8388607}}
    \cup {[what |-> "integer", n |-> n] :
            n \in {-32769, -32768, -129, -128, -1, 0, 127, 128, 255, 256, 32767, 32768, 8388607, 8388608, MAX_COUNTER}}
    \cup {[what |-> "oid", oid |-> <<1, 3>> \o tail] :
            tail \in {<<>>, <<6, 1>>, <<127, 128>>, <<16383, 16384, 0>>, <<2097151>>}}
    \cup {mcMessage(level, id, boots, user, privacy, scoped) :
            level \in {"Discovery", "AuthNoPriv", "AuthPriv"}, id \in {0, 4, 5, 32},
            boots \in {0, 128, MAX_COUNTER}, user \in {0, 1, 32, 33}, privacy \in {0, 8},
            scoped \in {10, 127, 128, 250, 8150,
                        ScopedPduLen(12, 0, 1, <<1, 3, 6, 1, 2, 1, 4, 21>>)}}

mcIdle == [what |-> "none"]
mcInit ==
    /\ mode \in {"harvest", "engine", "codec"}
    /\ IF mode = "harvest" THEN Init
       ELSE mib = MCDevice /\ stage = "none" /\ walk = NewWalk(<<>>) /\ info = EmptyInfo /\ lies = 0
    /\ UsmInit
    /\ IF mode = "codec" THEN CodecInit ELSE sample = mcIdle
mcNext ==
    /\ mode' = mode /\ sample' = sample
    /\ \/ mode = "harvest" /\ Next /\ UNCHANGED usmVars
       \/ mode = "engine" /\ (UsmNext \/ UNCHANGED usmVars) /\ UNCHANGED vars
       \/ mode = "codec" /\ UNCHANGED <<vars, usmVars>>
mcSpec == mcInit /\ [][mcNext]_<<mode, sample, vars, usmVars>> /\ WF_vars(mode = "harvest" /\ mcNext)
=============================================================================
