----------------------------- MODULE MCNtdylib ------------------------------
EXTENDS Ntdylib

CONSTANTS m1, m2, m3, plugin, helper, standard

MCModules == {m1, m2, m3}

MCBase == (plugin :> "a") @@ (helper :> "b") @@ (standard :> "c")
MCBases == {16, 72, 90}

\* Windows has a DLL of the plugin's name.
MCSystem == "a" :> [base |-> 300, exports |->
                [base |-> 1, functions |-> <<0, 8>>, names |-> <<[name |-> "run", index |-> 1]>>]]

(* Every file has headers in cells 0 and 1, a read-only section in cells 3 *)
(* and 4, and a writable one in cells 6 to 9 whose last cell has no data.  *)
Code == [rva |-> 3, raw |-> 2, rawsize |-> 2, vsize |-> 0, write |-> FALSE]
Data == [rva |-> 6, raw |-> 4, rawsize |-> 3, vsize |-> 4, write |-> TRUE]
Laid(value) ==
    [a \in 0 .. 6 |-> IF a < 2 THEN value[a] ELSE IF a < 4 THEN value[a + 1] ELSE value[a + 2]]

Made(base, pointers, relocs, imports, exports, entry) ==
    LET values == [a \in 0 .. 9 |-> IF a \in {2, 5, 9} THEN 0 ELSE 50 + a]
        linked == [a \in 0 .. 9 |-> IF a \in DOMAIN pointers THEN (base + pointers[a]) % DWord
                                ELSE values[a]]
    IN [sig |-> "TE", base |-> base, size |-> 10, headers |-> 2,
        raw |-> Laid(linked), sections |-> <<Code, Data>>, relocs |-> relocs,
        imports |-> imports, exports |-> exports, entry |-> entry,
        pointers |-> pointers, values |-> values]

Named(name, slot) == [name |-> name, ordinal |-> NoOrdinal, slot |-> slot]
ByOrdinal(ordinal, slot) == [name |-> "", ordinal |-> ordinal, slot |-> slot]

\* Two words of data are addresses; what follows a block of size 0 is not read.
Plugin ==
    Made(16, (6 :> 3) @@ (8 :> 4),
         <<[page |-> 6, size |-> 12, entries |-> <<[type |-> 1, offset |-> 0], [type |-> 0, offset |-> 0]>>],
           [page |-> 7, size |-> 10, entries |-> <<[type |-> 1, offset |-> 1]>>],
           [page |-> 0, size |-> 0, entries |-> <<>>],
           [page |-> 6, size |-> 10, entries |-> <<[type |-> 1, offset |-> 1]>>]>>,
         <<[dll |-> "b", thunks |-> <<Named("f", 7)>>]>>,
         [base |-> 1, functions |-> <<3>>, names |-> <<[name |-> "run", index |-> 0]>>], TRUE)

\* An address in the read-only section, so that it loads at its base or not
\* at all; no DllMain; imports by name and by ordinal.
Helper ==
    Made(72, 4 :> 3,
         <<[page |-> 3, size |-> 10, entries |-> <<[type |-> 1, offset |-> 1]>>]>>,
         <<[dll |-> "a", thunks |-> <<Named("run", 6), ByOrdinal(1, 7)>>]>>,
         [base |-> 5, functions |-> <<4>>, names |-> <<[name |-> "f", index |-> 0]>>], FALSE)

\* As any compiler makes it.
Standard == [Plugin EXCEPT !.sig = "PE"]

MCContent == (plugin :> Plugin) @@ (helper :> Helper) @@ (standard :> Standard)

\* The helper is loaded as a data file.
MCDataFlags == [f \in Files |-> IF f = helper THEN {TRUE} ELSE {FALSE}]

Symmetric == Permutations(MCModules)
=============================================================================
