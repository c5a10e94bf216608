---------------------------- MODULE MCOsmImport ----------------------------
(***************************************************************************)
(* OsmImport for two areas of one name under different parents, and a      *)
(* parent that is an area itself; an element in two of them; one without   *)
(* a name, and one that is too small.                                      *)
(***************************************************************************)
EXTENDS OsmImport

A(parent, name) == [parent |-> parent, name |-> name]

Soho == A("London", "Soho")
London == A("London", "London")
NewSoho == A("York", "Soho")

Areas == <<Soho, London, NewSoho>>

El(way, tags, shape, size, inside) ==
    [way |-> way, tags |-> tags, shape |-> shape, size |-> size, inside |-> inside]

Elements == {El(1, {"name", "leisure"}, "Polygon", "fine", {Soho, London}),
             El(2, {"name"}, "MultiPolygon", "fine", {Soho}),
             El(3, {"name"}, "Polygon", "fine", {NewSoho}),
             El(4, {"leisure"}, "Polygon", "fine", {NewSoho}),
             El(5, {"name"}, "Polygon", "small", {London})}

=============================================================================
