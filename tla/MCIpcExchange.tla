--------------------------- MODULE MCIpcExchange ---------------------------
(***************************************************************************)
(* An instance of IpcExchange for TLC.                                     *)
(***************************************************************************)
EXTENDS IpcExchange

Key(n) == [i \in 1..n |-> 100 + i]
Request(type, version, key) == [type |-> type, version |-> version, key |-> key]

\* Every request of this version; requests of the version before; one of a type that is
\* not known; keys that are the longest allowed and too long; a frame too long.
MCRequests ==
    {Request(GetStatusRequest, 2, <<>>), Request(GetCacheStatisticsRequest, 2, <<>>),
     Request(FlushAllRequest, 2, <<>>),
     Request(GetStatusRequest, 1, <<>>), Request(FlushAllRequest, 1, <<>>),
     Request(InvalidateKeyRequest, 1, Key(1)), Request(10, 2, <<>>)}
    \cup {Request(InvalidateKeyRequest, 2, Key(n)) :
            n \in {1, MaxKeyLength, MaxKeyLength + 1, MaxFrameLength}}
=============================================================================
