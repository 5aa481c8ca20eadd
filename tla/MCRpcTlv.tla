------------------------------ MODULE MCRpcTlv ------------------------------
(* A small instance of RpcTlv for TLC *)
EXTENDS RpcTlv

\* -2 as a 32-bit word, and 200, which has its highest bit set as a uint8
SmallWords == {<<255, 255, 255, 254>>, <<0, 0, 0, 200>>}

\* the codec does not look at the bytes of a blob: one of each length
SmallBlobs == {<<>>, <<201>>, <<201, 202>>}

=============================================================================
