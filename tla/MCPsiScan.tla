----------------------------- MODULE MCPsiScan ------------------------------
\* A frequency carries one of four multiplexes: five services, of which two can
\* be played, one is not in the PAT and two have their PMTs on one PID; a single
\* service without video; or two services that can be played, with the PMT of the
\* second garbled or not.
EXTENDS PsiScan, TLC

CONSTANTS tv1, tv2, data1, twin1, twin2

MCServices == {tv1, tv2, data1, twin1, twin2}
MCStreams == [s \in MCServices |-> <<"video", "audio">>]
MCPmt == tv1 :> 257 @@ tv2 :> 258 @@ data1 :> 0 @@ twin1 :> 260 @@ twin2 :> 260
MCMuxes ==
    {[sdt |-> <<data1, twin1, tv1, twin2, tv2>>, pmt |-> MCPmt, streams |-> MCStreams,
      garbled |-> {}],
     [sdt |-> <<data1>>, pmt |-> [MCPmt EXCEPT ![data1] = 259],
      streams |-> [MCStreams EXCEPT ![data1] = <<"audio">>], garbled |-> {}]}
    \cup [sdt : {<<tv1, tv2>>}, pmt : {MCPmt}, streams : {MCStreams}, garbled : {{}, {258}}]
MCPmtPids == 257 .. 260
=============================================================================
