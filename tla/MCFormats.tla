----------------------------- MODULE MCFormats ------------------------------
(* Formats for TLC: the numbers and lists of a file. *)
EXTENDS Formats

Number_text(hex, digits) == [hex |-> hex, digits |-> digits]

MCTexts == {Number_text(FALSE, <<1, 0>>), Number_text(TRUE, <<1, 0>>),
            Number_text(FALSE, <<1, 0, 0>>), Number_text(TRUE, <<2, 0, 0>>),
            Number_text(FALSE, <<>>), Number_text(TRUE, <<>>)}
MCVersionLists == {<<>>, <<Number_text(TRUE, <<1, 0>>)>>,
                   <<Number_text(FALSE, <<1, 0>>), Number_text(TRUE, <<1, 1>>)>>,
                   <<Number_text(TRUE, <<1>>), Number_text(FALSE, <<>>)>>,
                   <<Number_text(TRUE, <<1, 0, 1>>)>>}
=============================================================================
