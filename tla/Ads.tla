-------------------------------- MODULE Ads --------------------------------
(***************************************************************************)
(* The ad on a page: getAds of src/cloud-functions/gcf-adservice/index.js  *)
(* and of src/src/adservice, which differ in a cap, and what the frontend  *)
(* does with the answer.  An answer that involves Math.random() is the set *)
(* of the answers it may give.                                             *)
(***************************************************************************)
EXTENDS Naturals, SequencesExt

CONSTANT AdsMap    \* the ads of each category that has some, in their order

\* What a page without an ad shows.
NoAd == "no ad"
\* What is left of a page whose rendering panicked.
Aborted == "aborted"

\* Every category that is listed has an ad.
ASSUME AdsAssumption ==
  /\ DOMAIN AdsMap # {}
  /\ \A k \in DOMAIN AdsMap :
       /\ AdsMap[k] \in Seq(ToSet(AdsMap[k])) /\ AdsMap[k] # <<>>
       /\ {NoAd, Aborted} \cap ToSet(AdsMap[k]) = {}

\* Object.values(adsMap).flat()
allAds == UNION {ToSet(AdsMap[k]) : k \in DOMAIN AdsMap}

getRandomAds(maxAds) ==
  IF allAds = {} THEN {<<>>} ELSE [1 .. maxAds -> allAds]

\* The ads of the categories that are asked for.
Selected(contextKeys) ==
  FlattenSeq([i \in DOMAIN contextKeys |->
    IF contextKeys[i] \in DOMAIN AdsMap THEN AdsMap[contextKeys[i]] ELSE <<>>])

MaxAds == 2

\* Mutant of getAds: there are no random ads.
getAdsOfCategories(contextKeys) == {Selected(contextKeys)}

\* The function serves two ads at most.
getAds(contextKeys) ==
  LET selectedAds == Selected(contextKeys)
  IN IF selectedAds = <<>> THEN getRandomAds(MaxAds)
     ELSE {IF Len(selectedAds) > MaxAds THEN SubSeq(selectedAds, 1, MaxAds) ELSE selectedAds}

\* The Java service serves all that it selected.
getAdsUncapped(contextKeys) ==
  LET selectedAds == Selected(contextKeys)
  IN IF selectedAds = <<>> THEN getRandomAds(MaxAds) ELSE {selectedAds}

\* ads[rand.Intn(len(ads))], which panics on an empty list.
chooseAd(ads) == ToSet(ads)
=============================================================================
