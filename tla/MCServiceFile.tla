--------------------------- MODULE MCServiceFile ----------------------------
EXTENDS ServiceFile

CONSTANTS tv1, tv2, tv3, hd2   \* hd2: of a type a scan saves and a load drops

AllStations == {tv1, tv2, tv3, hd2}
TvStations == {tv1, tv2, tv3}
FoundOnFrequencies == {<<tv1, hd2>>, <<tv2, tv3>>}
Addresses == 1 .. 5
=============================================================================
