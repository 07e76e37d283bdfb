------------------------------ MODULE LoadMethods ------------------------------
(***************************************************************************)
(* The +load methods: objc-loadmethod.mm of objc4-818.2, and load_images   *)
(* and unmap_image of objc-runtime-new.mm.                                 *)
(*                                                                         *)
(* dyld calls load_images for an image after it mapped it.  The +load      *)
(* methods run with loadMethodLock held, one at a time, and may bring in   *)
(* or unmap images: such a re-entrant call only changes the lists, and     *)
(* the outermost call_load_methods finishes the job.  Another thread waits *)
(* for the lock and so acts as if it came before or after that call.       *)
(*                                                                         *)
(* dyld is not in the model, but for what load_images expects of it: the   *)
(* class of a category has been through load_images before the category,   *)
(* and an image is unmapped only when no other one needs it.               *)
(***************************************************************************)
EXTENDS Naturals, Sequences, Functions

CONSTANTS
    Image, Class, Category,
    clslist,     \* clslist[i]: the classes of an image
    nlclslist,   \* nlclslist[i]: those that implement +load, in its order
    catlist,     \* catlist[i]: its categories
    nlcatlist,   \* nlcatlist[i]: those that implement +load
    superclass,  \* superclass[c], or Nil
    cls,         \* cls[cat]: the class of a category, Nil if it was weak-linked
    Bundle,      \* the images that can be unmapped
    MaxMaps,     \* bound: the times a bundle is mapped
    Careful      \* no +load unmaps an image whose +load methods are about to run

Nil == "nil"

ASSUME LoadAssumption ==
    /\ Class \intersect Category = {} /\ Nil \notin Class \union Category
    /\ superclass \in [Class -> Class \union {Nil}] /\ cls \in [Category -> Class \union {Nil}]
    /\ clslist \in [Image -> SUBSET Class] /\ catlist \in [Image -> SUBSET Category]
    /\ nlclslist \in [Image -> Seq(Class)] /\ nlcatlist \in [Image -> Seq(Category)]
    /\ \A i \in Image : Range(nlclslist[i]) \subseteq clslist[i]
    /\ \A i \in Image : Range(nlcatlist[i]) \subseteq catlist[i] /\ IsInjective(nlcatlist[i])
    /\ \A i, j \in Image : i # j =>
           clslist[i] \intersect clslist[j] = {} /\ catlist[i] \intersect catlist[j] = {}
    /\ Bundle \subseteq Image /\ MaxMaps \in Nat \ {0} /\ Careful \in BOOLEAN

VARIABLES
    images,       \* the images that went through load_images
    maps,         \* maps[i]: how often
    RW_LOADED,    \* the classes with that flag
    loadable_classes, loadable_categories,
    todo,         \* what prepare_load_methods has still to schedule
    phase,        \* of call_load_methods, "idle" if not loading
    detached,     \* the detached list of the phase
    current,      \* whose +load method runs, if any
    calls         \* calls[x]: +load calls of x since it was mapped

vars == <<images, maps, RW_LOADED, loadable_classes, loadable_categories, todo,
          phase, detached, current, calls>>

Item == Class \union Category

Init ==
    /\ images = {} /\ maps = [i \in Image |-> 0]
    /\ RW_LOADED = {}
    /\ loadable_classes = <<>> /\ loadable_categories = <<>> /\ todo = <<>>
    /\ phase = "idle" /\ detached = <<>> /\ current = Nil
    /\ calls = [x \in Item |-> 0]

-----------------------------------------------------------------------------
(* load_images *)

\* The classes and categories with a +load method.
Loads == UNION {Range(nlclslist[i]) \union Range(nlcatlist[i]) : i \in Image}

hasLoadMethods(i) == nlclslist[i] # <<>> \/ nlcatlist[i] # <<>>

\* Mutant: a class of the list is added without asking its own flag.
schedule_class_load_again ==
    /\ todo # <<>> /\ Head(todo) \in Class
    /\ LET c == Head(todo)
           super == superclass[c]
       IN  \/ /\ super \notin RW_LOADED \union {Nil}
              /\ todo' = <<super>> \o todo
              /\ UNCHANGED <<RW_LOADED, loadable_classes>>
           \/ /\ super \in RW_LOADED \union {Nil}
              /\ loadable_classes' = IF c \in Loads THEN Append(loadable_classes, c)
                                                     ELSE loadable_classes
              /\ RW_LOADED' = RW_LOADED \union {c}
              /\ todo' = Tail(todo)
    /\ UNCHANGED <<images, maps, loadable_categories, phase, detached, current, calls>>

\* One call of schedule_class_load: it returns at once, or calls itself for the
\* superclass, or, when that is done, adds the class to the list.
schedule_class_load ==
    /\ todo # <<>> /\ Head(todo) \in Class
    /\ LET c == Head(todo)
           super == superclass[c]
       IN  \/ /\ c \in RW_LOADED
              /\ todo' = Tail(todo)
              /\ UNCHANGED <<RW_LOADED, loadable_classes>>
           \/ /\ c \notin RW_LOADED /\ super \notin RW_LOADED \union {Nil}
              /\ todo' = <<super>> \o todo
              /\ UNCHANGED <<RW_LOADED, loadable_classes>>
           \/ /\ c \notin RW_LOADED /\ super \in RW_LOADED \union {Nil}
              /\ loadable_classes' = IF c \in Loads THEN Append(loadable_classes, c)
                                                     ELSE loadable_classes
              /\ RW_LOADED' = RW_LOADED \union {c}
              /\ todo' = Tail(todo)
    /\ UNCHANGED <<images, maps, loadable_categories, phase, detached, current, calls>>

\* A category: one of a weak-linked class that is missing is ignored.
schedule_category ==
    /\ todo # <<>> /\ Head(todo) \in Category
    /\ loadable_categories' = IF cls[Head(todo)] = Nil THEN loadable_categories
                              ELSE Append(loadable_categories, Head(todo))
    /\ todo' = Tail(todo)
    /\ UNCHANGED <<images, maps, RW_LOADED, loadable_classes, phase, detached, current, calls>>

\* prepare_load_methods goes through the two lists of the image.
prepare_load_methods(i) == todo' = nlclslist[i] \o nlcatlist[i]

\* The image calls in at the start, or by dlopen in a +load method.
MayCall == todo = <<>> /\ (phase = "idle" \/ current # Nil)

\* dyld: the images of the classes of its categories come first.
DependenciesLoaded(i) ==
    \A k \in catlist[i] : cls[k] = Nil \/ \E j \in images \union {i} : cls[k] \in clslist[j]

load_images(i) ==
    /\ MayCall /\ i \notin images /\ DependenciesLoaded(i)
    /\ maps[i] < IF i \in Bundle THEN MaxMaps ELSE 1
    /\ images' = images \union {i} /\ maps' = [maps EXCEPT ![i] = @ + 1]
    /\ prepare_load_methods(i)
    /\ phase' = IF phase = "idle" /\ hasLoadMethods(i) THEN "loop" ELSE phase
    /\ UNCHANGED <<RW_LOADED, loadable_classes, loadable_categories, detached, current, calls>>

-----------------------------------------------------------------------------
(* unmap_image *)

Of(i) == clslist[i] \union catlist[i]

NilOut(list, xs) == [n \in DOMAIN list |-> IF list[n] \in xs THEN Nil ELSE list[n]]

\* The superclasses of a class: what is in every set that has its superclass, and
\* that of each of its members.
Ancestors ==
    [c \in Class |-> {d \in Class : \A S \in SUBSET Class :
        (\A e \in {c} \union S : superclass[e] \in S \union {Nil}) => d \in S}]

ASSUME HierarchyAssumption == \A c \in Class : c \notin Ancestors[c]

\* Nothing that stays needs the image, nor does it run.
Unused(i) ==
    /\ current \notin Of(i)
    /\ \A c \in Class \ clslist[i] :
           (c \in RW_LOADED \/ \E j \in images : c \in clslist[j]) =>
               Ancestors[c] \intersect clslist[i] = {}
    /\ \A j \in images \ {i} : \A k \in catlist[j] : cls[k] \notin clslist[i]

\* _unload_image: its classes and categories leave the lists that are not detached.
unmap_image(i) ==
    /\ MayCall /\ i \in images \intersect Bundle /\ Unused(i)
    /\ Careful => Range(detached) \intersect Of(i) = {}
    /\ images' = images \ {i}
    /\ RW_LOADED' = RW_LOADED \ Of(i)
    /\ loadable_classes' = NilOut(loadable_classes, Of(i))
    /\ loadable_categories' = NilOut(loadable_categories, Of(i))
    /\ calls' = [x \in Item |-> IF x \in Of(i) THEN 0 ELSE calls[x]]
    /\ UNCHANGED <<maps, todo, phase, detached, current>>

-----------------------------------------------------------------------------
(* call_load_methods; a detached entry is removed once it was dealt with *)

\* Mutant: "if" for "while": the categories follow after one pass over the classes.
detach_categories_soon ==
    /\ phase = "loop" /\ todo = <<>>
    /\ detached' = loadable_categories /\ loadable_categories' = <<>>
    /\ phase' = "categories"
    /\ UNCHANGED <<images, maps, RW_LOADED, todo, loadable_classes, current, calls>>

detach_classes ==
    /\ phase = "loop" /\ todo = <<>> /\ loadable_classes # <<>>
    /\ detached' = loadable_classes /\ loadable_classes' = <<>>
    /\ phase' = "classes"
    /\ UNCHANGED <<images, maps, RW_LOADED, todo, loadable_categories, current, calls>>

detach_categories ==
    /\ phase = "loop" /\ todo = <<>> /\ loadable_classes = <<>>
    /\ detached' = loadable_categories /\ loadable_categories' = <<>>
    /\ phase' = "categories"
    /\ UNCHANGED <<images, maps, RW_LOADED, todo, loadable_classes, current, calls>>

\* An entry that was set to nil is skipped.
skip_unmapped ==
    /\ phase \in {"classes", "categories"} /\ current = Nil
    /\ detached # <<>> /\ Head(detached) = Nil
    /\ detached' = Tail(detached)
    /\ UNCHANGED <<images, maps, RW_LOADED, todo, loadable_classes, loadable_categories, phase,
                   current, calls>>

\* (*load_method)(cls, @selector(load)); cls->isLoadable() is always true.
call_load ==
    /\ phase \in {"classes", "categories"} /\ current = Nil
    /\ detached # <<>> /\ Head(detached) # Nil
    /\ current' = Head(detached) /\ calls' = [calls EXCEPT ![current'] = @ + 1]
    /\ detached' = Tail(detached)
    /\ UNCHANGED <<images, maps, RW_LOADED, todo, loadable_classes, loadable_categories, phase>>

load_returns ==
    /\ current # Nil /\ todo = <<>>
    /\ current' = Nil
    /\ UNCHANGED <<images, maps, RW_LOADED, todo, loadable_classes, loadable_categories, phase,
                   detached, calls>>

end_class_loads ==
    /\ phase = "classes" /\ current = Nil /\ detached = <<>>
    /\ phase' = "loop"
    /\ UNCHANGED <<images, maps, RW_LOADED, todo, loadable_classes, loadable_categories, detached,
                   current, calls>>

\* Mutant: new categories are not attempted.
end_category_loads_forgets ==
    /\ phase = "categories" /\ current = Nil /\ detached = <<>>
    /\ phase' = IF loadable_classes # <<>> THEN "loop" ELSE "idle"
    /\ UNCHANGED <<images, maps, RW_LOADED, todo, loadable_classes, loadable_categories, detached,
                   current, calls>>

\* Every category was called or unmapped, so the reattached list is the new one.
end_category_loads ==
    /\ phase = "categories" /\ current = Nil /\ detached = <<>>
    /\ phase' = IF loadable_classes # <<>> \/ loadable_categories # <<>> THEN "loop" ELSE "idle"
    /\ UNCHANGED <<images, maps, RW_LOADED, todo, loadable_classes, loadable_categories, detached,
                   current, calls>>

-----------------------------------------------------------------------------
(* Specification *)

Loop ==
    \/ detach_classes \/ detach_categories \/ skip_unmapped \/ call_load
    \/ load_returns \/ end_class_loads \/ end_category_loads
    \/ schedule_class_load \/ schedule_category

Next == Loop \/ \E i \in Image : load_images(i) \/ unmap_image(i)

Spec == Init /\ [][Next]_vars

-----------------------------------------------------------------------------
(* Properties *)

\* No class or category is in a list twice.
Once(list) == \A m, n \in DOMAIN list : list[m] = list[n] /\ list[m] # Nil => m = n

\* The type of every variable; no list holds a class or category twice.
TypeOK ==
    /\ images \subseteq Image /\ maps \in [Image -> 0 .. MaxMaps]
    /\ RW_LOADED \subseteq Class
    /\ loadable_classes \in Seq(Class \union {Nil})
    /\ loadable_categories \in Seq(Category \union {Nil})
    /\ todo \in Seq(Item)
    /\ detached \in Seq(Item \union {Nil})
    /\ \A list \in {loadable_classes, loadable_categories, detached} : Once(list)
    /\ phase \in {"idle", "loop", "classes", "categories"}
    /\ current \in Item \union {Nil}
    /\ calls \in [Item -> Nat]

Returned(x) == (x # Nil /\ x \in Loads) => (calls[x] = 1 /\ current # x)

\* "Class +load methods are called superclass-first. Category +load methods are
\* not called until after the parent class's +load": when a +load method runs,
\* those that come before it have returned, whatever images came in meanwhile.
LoadOrder ==
    /\ current \in Class => \A c \in Ancestors[current] : Returned(c)
    /\ current \in Category => Returned(cls[current])

\* "no +load method is forgotten because it was added during a +load call": when
\* the outermost call has returned, each +load method of the images was called
\* once, and never is one called again.
NoneForgotten ==
    /\ \A x \in Item : calls[x] <= 1
    /\ phase = "idle" =>
           \A i \in images : \A x \in Of(i) \intersect Loads :
               (x \in Category /\ cls[x] = Nil) \/ calls[x] = 1

\* "it is now no longer loadable (because its image is being unmapped)": a class
\* or category whose image was unmapped is not sent +load.
LoadsOnlyMapped ==
    \A i \in Image : current \in Of(i) => i \in images \/ maps[i] = 0
=============================================================================
