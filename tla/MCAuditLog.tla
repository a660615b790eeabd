----------------------------- MODULE MCAuditLog ------------------------------
(***************************************************************************)
(* Logs of up to four events of two fields each: two data with the same    *)
(* text in different fields, and one with another text.                    *)
(***************************************************************************)
EXTENDS AuditLog

MCData ==
    {<< <<"a">>, << >> >>, << << >>, <<"a">> >>, << <<"b">>, << >> >>}

MCBytes == [data \in MCData |-> data[1] \o data[2]]

=============================================================================
