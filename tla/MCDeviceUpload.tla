--------------------------- MODULE MCDeviceUpload ---------------------------
(***************************************************************************)
(* DeviceUpload for TLC: two asynchronous uploads and a synchronous one.   *)
(* The limit on staging memory has room for one large buffer and the small *)
(* one, so that an upload can find no staging buffer, reuse one, or add    *)
(* one; the pool keeps one idle command list, so that it overflows.        *)
(***************************************************************************)
EXTENDS DeviceUpload, TLC

CONSTANTS u1, u2, s1
MCUpload == {u1, u2, s1}
MCAsync == {u1, u2}
MCCancellable == {u1}
MCSize == (u1 :> 2) @@ (u2 :> 1) @@ (s1 :> 1)
=============================================================================
