---------------------------- MODULE MCSearchAids ----------------------------
(* Corpora of three records of three kinds, among them two that tie on the *)
(* query of both words: one word of a title is worth two of a text.        *)
EXTENDS SearchAids

MCRecords == {
    [title |-> {"rent"}, body |-> {}, category |-> {"logement"}],
    [title |-> {}, body |-> {"rent", "study"}, category |-> {"formation"}],
    [title |-> {"study"}, body |-> {"study"}, category |-> {"formation", "logement"}] }
MCCorpora == [1..3 -> MCRecords]
MCOtherCorpus == <<[title |-> {"rent"}, body |-> {}, category |-> {"logement"}]>>
=============================================================================
