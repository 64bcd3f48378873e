----------------------------- MODULE MCDmiTable -----------------------------
(***************************************************************************)
(* Small instances of DmiTable: tables of at most two structures before    *)
(* the one that ends a table, with texts that are longer than a field,     *)
(* blank, or hold a byte that cannot be printed, and lengths that are too  *)
(* small or too large.                                                     *)
(***************************************************************************)
EXTENDS DmiTable

Texts == {<<<<65>>>>, <<<<32, 66, 32>>, <<7, 67, 68, 69>>>>, <<>>}

Indices == {<<1, 2, 0, 3>>, <<2, 1, 1, 1>>}

Structure(t, claims, index, strings) ==
  [type |-> t, claims |-> claims, index |-> index, strings |-> strings]

Structures ==
  {Structure(t, BodySize(t), index, strings) : t \in Types, index \in Indices, strings \in Texts}

Wrong ==
  {Structure(2, claims, <<1, 2, 0, 3>>, strings) : claims \in {0, 4, 9, 12, 40}, strings \in Texts}

EndOfTable == Structure(127, 4, <<0, 0, 0, 0>>, <<>>)

SmallTables ==
  {<<a, b, EndOfTable>> : a \in Structures, b \in Structures}
    \cup {<<a, EndOfTable>> : a \in Wrong} \cup {<<>>}

SmallSegments ==
  {<<"other", "SM", "DMI">>, <<"SM", "other", "SM">>, <<"SM", "DMI", "other", "SM", "DMI">>}
=============================================================================
