--------------------------- MODULE MCMediaPlayer ---------------------------
\* A folder of a file that plays and one that does not.
EXTENDS MediaPlayer

CONSTANTS a, x

MCFolder == <<a, x>>

MCBad == {x}
=============================================================================
