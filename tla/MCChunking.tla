------------------------------ MODULE MCChunking ------------------------------
(* Small documents: chunk_size 5, so that texts of 1 and 2 just fit in one   *)
(* piece with the blank line between them and a text of 6 is split; headings *)
(* of three levels, one without #, one that is only text, and one whose      *)
(* title spells the path of two others.                                      *)
EXTENDS Chunking

Text(n) == [heading |-> FALSE, level |-> 0, title |-> <<>>, length |-> n]
Heading(l, t) == [heading |-> TRUE, level |-> l, title |-> t, length |-> 3]

MCElements ==
    {Text(1), Text(2), Text(6),
     Heading(1, <<"A">>), Heading(2, <<"B">>), Heading(3, <<"C">>),
     Heading(0, <<"D">>), Heading(1, <<"A", "B">>),
     [heading |-> FALSE, level |-> 2, title |-> <<"T">>, length |-> 3]}
===============================================================================
