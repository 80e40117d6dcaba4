------------------------------ MODULE MCBroker ------------------------------
(* Instances of Broker for TLC. *)
EXTENDS Broker, TLC

CONSTANTS p1, p2, s1, s2, s3, o1, camera, lidar

\* One publisher, and subscribers that follow each other in its slots.
ReusePublishers == {p1}
ReuseSubscribers == {s1, s2, s3}
ReuseTopics == {camera}
ReuseTopicOf == [p \in ReusePublishers |-> camera]
ReuseTopicsOf == [s \in ReuseSubscribers |-> <<camera>>]
ReuseSymmetry == Permutations(ReuseSubscribers)

\* Two publishers and two subscribers: s1 wants the topics of both, s2 one.
MeshPublishers == {p1, p2}
MeshSubscribers == {s1, s2}
MeshTopics == {camera, lidar}
MeshTopicOf == (p1 :> camera @@ p2 :> lidar)
MeshTopicsOf == (s1 :> <<camera, lidar>> @@ s2 :> <<camera>>)

OneObserver == {o1}
NoObserver == {}

=============================================================================
