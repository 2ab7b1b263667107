------------------------------ MODULE Exercises -------------------------------
(***************************************************************************)
(* Exercises that have nothing to do with each other: the two telephone    *)
(* directories, the store, and the exchanges of two texts.  One of them    *)
(* runs.                                                                   *)
(***************************************************************************)
EXTENDS Directories, Shop, Exchanges

VARIABLE exercise   \* the one that runs

directoryVars == vars
exerciseVars  == <<exercise, directoryVars, shopVars, exchangeVars>>

(* What an exercise that does not run could choose is fixed.               *)
ExercisesInit ==
    /\ exercise \in {"directory", "shop", "exchange"}
    /\ Init /\ ShopInit /\ ExchangeInit
    /\ exercise # "directory" => program = "list"
    /\ exercise # "exchange" => patient /\ pair = CHOOSE p \in Pairs : TRUE

ExercisesNext ==
    /\ UNCHANGED exercise
    /\ \/ exercise = "directory" /\ Next /\ UNCHANGED <<shopVars, exchangeVars>>
       \/ /\ exercise = "shop" /\ ShopNext
          /\ UNCHANGED <<directoryVars, exchangeVars>>
       \/ /\ exercise = "exchange" /\ ExchangeNext
          /\ UNCHANGED <<directoryVars, shopVars>>

(* Nothing has to happen in a store that has not been opened.              *)
ExercisesSpec == ExercisesInit /\ [][ExercisesNext]_exerciseVars /\ ShopFairness
=============================================================================
