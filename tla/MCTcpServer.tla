------------------------------ MODULE MCTcpServer ------------------------------
(***************************************************************************)
(* Instance of TcpServer: two complete packages (one as large as the       *)
(* buffer), an incomplete one, one too large and ENDNOW.                   *)
(***************************************************************************)
EXTENDS TcpServer, TLC

CONSTANTS small, full, cut, huge, endnow

MCMsgs == {small, full, cut, huge, endnow}
MCSizeOf == small :> 2 @@ full :> 3 @@ cut :> 2 @@ huge :> 4 @@ endnow :> 1
MCKindOf == small :> "op" @@ full :> "op" @@ cut :> "short" @@ huge :> "op" @@ endnow :> "end"
MCResOf == small :> 0 @@ full :> 5 @@ cut :> 0 @@ huge :> 0 @@ endnow :> 0
=============================================================================
