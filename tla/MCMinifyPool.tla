---------------------------- MODULE MCMinifyPool -----------------------------
(***************************************************************************)
(* Lists of good images, with an output that is named twice, with an input *)
(* that is no image, and with one that is not there.                       *)
(***************************************************************************)
EXTENDS MinifyPool

CONSTANTS a, b, c, bad, gone, o, p, q

MCInput  == {a, b, c, bad, gone}
MCOutput == {o, p, q}
MCWorkloads ==
    {<< <<a, o>>, <<b, p>>, <<c, q>> >>, << <<a, o>>, <<b, o>>, <<c, p>> >>,
     << <<a, o>>, <<bad, p>>, <<b, q>> >>, << <<a, o>>, <<gone, p>> >>, <<>>}
=============================================================================
