------------------------------ MODULE MCSymbolCode ------------------------------
(* Codes of one to four symbols, of every colour count, and one of 13, the   *)
(* primary and the two rings around it, with messages that fill them to the  *)
(* last bits or leave room; some layouts hold symbols away from the primary. *)
EXTENDS SymbolCode

At(position, version, level) == [position |-> position, version |-> version, level |-> level]
Of(colors, iso, level, symbolsGiven, length) ==
  [colors |-> colors, iso |-> iso, level |-> level, opaque |-> FALSE,
   symbols |-> symbolsGiven, length |-> length]

Alone ==
  {Of(c, iso, level, <<>>, length) :
     c \in {4, 8}, iso \in BOOLEAN, level \in {0, 3, 5, 10}, length \in {20, 700}}
  \cup {[Of(c, FALSE, level, <<At(0, version, 3)>>, 300) EXCEPT !.opaque = opaque] :
          c \in ColorCounts \ {4}, level \in {0, 8}, opaque \in BOOLEAN, version \in {Fitting, <<1, 2>>, <<10, 6>>, <<32, 1>>}}

\* Net bits of symbols of these versions and levels, one after the other.
NetBits(colors, level0, given) ==
  LET sum[n \in 0 .. Len(given)] ==
        IF n = 0 THEN 0
        ELSE sum[n - 1] + NetCapacity(SymbolCapacity(Shape([colors |-> colors, iso |-> FALSE], level0,
                                        given[n].version, given[n].position = 0)),
                                      Weights(given[n].level))
  IN sum[Len(given)]
Filled(colors, iso, given, spares) ==
  {Of(colors, iso, 0, given, NetBits(colors, given[1].level, given) - spare) : spare \in spares}

Docked2 ==
  UNION {Filled(c, c = 4, <<At(0, <<1, 1>>, l0), At(p, v, l1)>>, {12, 23, 38, 200}) :
           c \in {4, 8}, l0 \in {0, 3, 5}, l1 \in {0, 3, 6}, p \in 1 .. 4, v \in {<<1, 1>>, <<1, 2>>, <<2, 1>>}}
Docked3 ==
  UNION {Filled(8, FALSE, <<At(p1, <<1, 1>>, l1), At(0, <<1, 1>>, l0), At(p2, <<1, 1>>, 5)>>, {25, 45, 300}) :
           l0 \in {3, 6}, l1 \in {0, 3, 4}, p1 \in {1, 4, 11}, p2 \in {2, 3, 4}}
Square ==
  UNION {Filled(8, FALSE, <<At(0, <<1, 1>>, l), At(2, <<1, 2>>, 7), At(4, <<v4, 1>>, 6), At(p, <<v, w>>, 4)>>, {400}) :
           l \in {3, 5}, v4 \in {1, 2}, p \in 5 .. 12, v \in {1, 2}, w \in {1, 2}}
HighColours ==
  UNION {Filled(c, FALSE, <<At(0, <<1, 1>>, 3), docked>>, {100, 500}) :
           c \in {16, 32, 64},
           docked \in {At(1, <<1, high>>, l) : high \in {9, 10, 11}, l \in {3, 5, 7}}
                      \cup {At(4, <<wide, 1>>, 5) : wide \in {2, 10, 28, 29, 30}}}
Every ==
  Filled(8, TRUE, [n \in 1 .. 13 |-> At(n - 1, <<1, 1>>, IF n % 3 = 0 THEN 5 ELSE 4)], {3001})

\* Two symbols beside one another and, but for the second set, away from the primary.
Islands ==
  UNION {Filled(8, FALSE, <<At(0, <<1, 1>>, 3), At(a, <<1, 1>>, 3), At(b, <<1, 1>>, l)>>, {60})
           : a \in {5, 7, 8}, b \in {13, 14, 15, 19, 24}, l \in {0, 3, 5}}
Chains ==
  UNION {Filled(8, FALSE, <<At(0, <<1, 1>>, 3), At(b, <<1, 1>>, 4), At(5, <<1, 1>>, 6), At(1, <<1, 1>>, 5)>>, {60})
           : b \in {13, 14, 15}}

MCInputs == Alone \cup Docked2 \cup Docked3 \cup Square \cup HighColours \cup Every
              \cup Islands \cup Chains
MCMasks  == {0, 3, 7}
=============================================================================
