--------------------------- MODULE FrameStreamMC ----------------------------
(***************************************************************************)
(* Messages for the checks of FrameStream.                                 *)
(***************************************************************************)
EXTENDS FrameStream

MCRaw == <<9>>

Requests(ids, services, methods, payloads, timeouts, attempts, traces, serializers) ==
    [type : {Request}, id : ids, service : services, method : methods, payload : payloads,
     timeout : timeouts, attempt : attempts, trace : traces, serializer : serializers]

Responses(ids, codes, errors, payloads, costs, traces, serializers) ==
    [type : {Response}, id : ids, code : codes, error : errors, payload : payloads,
     cost : costs, trace : traces, serializer : serializers]

\* With an extension and without.
MCMessages ==
    Requests({7}, {<<3>>}, {<< >>}, {<<1>>}, {0}, {0}, {<< >>}, {Raw}) \cup
    Requests({8}, {<< >>}, {<< >>}, {<< >>}, {1}, {0}, {<< >>}, {<< >>}) \cup
    Responses({7}, {5}, {<<2>>}, {<<1>>}, {4}, {<< >>}, {<< >>})

\* A string that goes beyond the metadata.
MCGarbage == [t \in {Request, Response} |-> {<<Magic, t, 7, 2, 0, 0, 2>>}]

MCSamples ==
    Requests({7}, {<< >>, <<3>>}, {<< >>, <<1, 2>>}, {<< >>, <<77, 2>>}, {0, 1}, {0, 2},
             {<< >>, <<4>>}, {<< >>, Raw, <<8, 8>>}) \cup
    Responses({7}, {0, 5}, {<< >>, <<78, 2>>}, {<< >>, <<77, 2>>}, {0, 1}, {<< >>, <<4>>},
              {<< >>, Raw, <<8, 8>>})
=============================================================================
