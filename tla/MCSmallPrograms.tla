--------------------------- MODULE MCSmallPrograms ---------------------------
(* A small instance of SmallPrograms for TLC *)
EXTENDS SmallPrograms

\* Files with a line that lacks its password first, in between and last, with
\* an empty line, and without any line
MCUserFiles ==
    {<<>>, <<<<"ann", "anna">>, <<"bob">>>>, <<<<"ann">>, <<"bob", "anna">>>>,
     <<<<"ann", "anna">>, <<>>, <<"bob", "anna">>>>}

\* Data of one to four lines of three, whose bytes at 1 and 5 may not print, for
\* 10.6.0.1, and packets for other addresses or with lengths that cannot be right
MCPackets ==
    [ip_hl : {5, 6}, ip_dst : {<<10, 6, 0, 1>>}, th_off : {5}, ip_len : 43..55, prints : {0..12, (0..12) \ {1, 5}}]
       \cup [ip_hl : {4, 5}, ip_dst : {<<10, 6, 0, 1>>, <<10, 0, 6, 17>>}, th_off : {4, 5}, ip_len : {55}, prints : {0..12}]
=============================================================================
