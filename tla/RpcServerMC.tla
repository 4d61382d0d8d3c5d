---------------------------- MODULE RpcServerMC -----------------------------
(***************************************************************************)
(* Values for the checks of RpcServer.                                     *)
(***************************************************************************)
EXTENDS RpcServer

CONSTANTS base, io, acceptor, wakeup, none, w1

MCIoLoops    == <<io>>
MCRegistered == {<<"s", "a">>}

Message(kind, method) == [kind |-> kind, method |-> method]
Good == Message("request", <<"s", "a">>)

\* Among them something that is no request, and a request nobody serves.
MCMessages == <<{Good},
                {Good},
                {Good, Message("garbage", <<"s", "a">>)},
                {Good, Message("request", <<"t", "a">>)}>>
=============================================================================
