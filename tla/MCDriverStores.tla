--------------------------- MODULE MCDriverStores ---------------------------
(* A prompt that may be asked again, its continuation, and a branch of it     *)
(* that shows an image.  Tokens a and b; an image is i, j.                    *)
EXTENDS DriverStores

SmallPrompts ==
    {[text |-> <<"a", "b">>, media |-> {}, query |-> <<1, 2>>],
     [text |-> <<"a", "b", "a", "b">>, media |-> {}, query |-> <<1, 2>>],
     [text |-> <<"a", "i", "j", "b">>, media |-> {<<1, 3>>}, query |-> <<3, 4>>]}
=============================================================================
