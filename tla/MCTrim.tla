------------------------------- MODULE MCTrim -------------------------------
(* Events of up to twice the size that is asked for. A record is alone in  *)
(* the level zero of the data, or in a level above it with a separator.    *)
EXTENDS Trim

MCTextShapes   == {<<Leaf(3), Leaf(1)>>}
MCDataShapes   == {<<Node(1, "execve"), Node(0, "path")>>,
                   <<Leaf(1), Node(1, "path"), Leaf(1)>>}
MCRecordShapes == {<<Leaf(2)>>, <<Leaf(3), Leaf(1)>>}
MCNormShapes   == {<<Leaf(1), Leaf(1)>>}

=============================================================================
