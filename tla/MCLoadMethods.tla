---------------------------- MODULE MCLoadMethods ----------------------------
(* LoadMethods.tla for TLC: two libraries and two bundles. *)
EXTENDS LoadMethods, TLC

\* "app" lists a subclass first and has a superclass in "lib", which may come later.
Classes == "lib" :> {"C"} @@ "app" :> {"A", "B"} @@ "one" :> {"D"} @@ "two" :> {"E", "F"}
Categories == "lib" :> {"CK"} @@ "app" :> {} @@ "one" :> {"AK", "DK"} @@ "two" :> {"EK", "WK"}
\* F has no +load.
LoadClasses == "lib" :> <<"C">> @@ "app" :> <<"B", "A">> @@ "one" :> <<"D">> @@ "two" :> <<"E">>
LoadCategories == "lib" :> <<"CK">> @@ "app" :> <<>> @@ "one" :> <<"DK", "AK">> @@ "two" :> <<"EK", "WK">>
Super == [c \in Class |-> CASE c = "B" -> "A" [] c = "D" -> "B" [] c = "A" -> "C" [] c = "E" -> "F" [] OTHER -> Nil]
ClassOf == "CK" :> "C" @@ "DK" :> "D" @@ "AK" :> "A" @@ "EK" :> "E" @@ "WK" :> Nil
=============================================================================
